---- MODULE Spec2Model ----
(***************************************************************************)
(* Verification model of the WebAudioStream streaming buffer pipeline.     *)
(*                                                                         *)
(*   Part 1  StreamingAssembler   (StreamingAssembler.ts)      SpecAsm     *)
(*   Part 2  AudioPlaybackProcessor (audio-worklet-processor.js) SpecEngine*)
(*   Part 3  WebAudioManager.playInstantly / play              SpecMgr     *)
(*                                                                         *)
(* Times are exact rationals: every time value is an integer number of     *)
(* 1/TimeDen seconds, and every sample rate divides TimeDen, so that       *)
(* position / sampleRate is represented without rounding.                  *)
(***************************************************************************)
EXTENDS Integers, Sequences, FiniteSets, TLC

\* ------------------------------------------------------------------------
\* Generic helpers
\* ------------------------------------------------------------------------

Min(a, b) == IF a <= b THEN a ELSE b

Max(a, b) == IF a >= b THEN a ELSE b

Range(s) == {s[i] : i \in DOMAIN s}

RECURSIVE SumSeq(_)
SumSeq(s) == IF s = <<>> THEN 0 ELSE Head(s) + SumSeq(Tail(s))

\* ------------------------------------------------------------------------
\* State
\* ------------------------------------------------------------------------

VARIABLES
  \* StreamingAssembler under test (SpecAsm)
  asm,        \* the StreamingAssembler
  plan,       \* sizes of the download chunks of the file being assembled
  added,      \* indices passed to addDownloadChunk since initialize(), in call order
  phase,      \* "new" | "initialized" | "finalized"
  \* AudioPlaybackProcessor and its port (SpecEngine, SpecMgr)
  worklet,            \* the AudioPlaybackProcessor
  port,               \* commands posted to the processor and not yet handled
  lastKnownPosition,  \* main thread: position last reported by the processor
  endedCount,         \* ENDED messages received since the last SET_BUFFER was handled
  activated,          \* places of scheduledBuffers that a switch has made active
  \* WebAudioManager (SpecMgr)
  manager,    \* fields of the WebAudioManager
  calls,      \* the play requests made so far and how far each has run
  decodes,    \* decodeAudioData operations in flight
  sent,       \* every command the manager has posted to the processor, in order
  \* DownloadManager (SpecPlan)
  downloader, \* the DownloadManager and the plan of its latest downloadAudio()
  download,   \* the downloadAudio() call in progress and the fetches it has issued (SpecFetch)
  \* AudioChunkStore (SpecStartup, SpecStore)
  chunkStore, \* the AudioChunkStore and the contents of its database
  storeOps    \* the calls made on the store and how far each has run

asmVars == <<asm, plan, added, phase>>

engineVars == <<worklet, port, lastKnownPosition, endedCount, activated>>

mgrVars == <<manager, calls, decodes, sent>>

dlVars == <<downloader, download>>

storeVars == <<chunkStore, storeOps>>

vars == <<asmVars, engineVars, mgrVars, dlVars, storeVars>>

\* ========================================================================
\* Part 1: StreamingAssembler
\* ========================================================================

\* Bounds of the assembler check
MaxFile == 4

MaxPlaybackChunk == 3

MaxStorageChunk == 3

MaxExtraAdds == 1

\* The bytes of the source file: byte k of the file has value k, so that any
\* loss, duplication or reordering of bytes is visible in the output.
FileBytes(n) == [k \in 1..n |-> k]

\* All ways of cutting n bytes into consecutive non-empty download chunks,
\* as sequences of chunk sizes.
RECURSIVE Compositions(_)
Compositions(n) ==
  IF n = 0 THEN {<<>>}
  ELSE UNION {{<<first>> \o rest : rest \in Compositions(n - first)} : first \in 1..n}

\* DownloadChunk {index, start, end, data} number i (0-based) of a plan.
ChunkStart(sizes, i) == SumSeq(SubSeq(sizes, 1, i))

DownloadChunkOf(sizes, i) ==
  [index |-> i,
   start |-> ChunkStart(sizes, i),
   end   |-> ChunkStart(sizes, i) + sizes[i + 1] - 1,
   data  |-> [k \in 1..sizes[i + 1] |-> ChunkStart(sizes, i) + k]]

\* Map<number, X> as a function over a finite set of keys
MapSet(m, k, v) == [x \in (DOMAIN m) \cup {k} |-> IF x = k THEN v ELSE m[x]]

MapDelete(m, k) == [x \in (DOMAIN m) \ {k} |-> m[x]]

MapHas(m, k) == k \in DOMAIN m

EmptyMap == [x \in {} |-> 0]

\* Sum over the values of a map of assembled chunks
RECURSIVE SumOverKeys(_, _, _)
SumOverKeys(m, ks, what) ==
  IF ks = {} THEN 0
  ELSE LET k == CHOOSE x \in ks : TRUE
       IN (IF what = "downloadChunks.length" THEN Len(m[k].downloadChunks) ELSE m[k].totalSize)
            + SumOverKeys(m, ks \ {k}, what)

\* ArrayBuffer | null
NullBuffer == [has |-> FALSE, bytes |-> <<>>]

SomeBuffer(b) == [has |-> TRUE, bytes |-> b]

\* The fields of a StreamingAssembler after its constructor; events is the
\* trace of the callbacks it has invoked (onPlaybackReady, onChunkAssembled).
NewAssembler(opts) ==
  [options               |-> opts,
   downloadChunks        |-> EmptyMap,
   assembledChunks       |-> EmptyMap,
   totalExpectedSize     |-> 0,
   isPlaybackReady       |-> FALSE,
   nextStorageIndex      |-> 0,
   currentAssemblyBuffer |-> NullBuffer,
   currentAssemblySize   |-> 0,
   currentDownloadChunks |-> <<>>,
   events                |-> <<>>]

initialize(a, totalSize) ==
  [a EXCEPT !.totalExpectedSize     = totalSize,
            !.downloadChunks        = EmptyMap,
            !.assembledChunks       = EmptyMap,
            !.nextStorageIndex      = 0,
            !.currentAssemblyBuffer = NullBuffer,
            !.currentAssemblySize   = 0,
            !.currentDownloadChunks = <<>>,
            !.isPlaybackReady       = FALSE,
            !.events                = <<>>]

getNextSequentialIndex(a) ==
  SumOverKeys(a.assembledChunks, DOMAIN a.assembledChunks, "downloadChunks.length")
    + Len(a.currentDownloadChunks)

isLastAssemblyChunk(a) ==
  SumOverKeys(a.assembledChunks, DOMAIN a.assembledChunks, "totalSize") + a.currentAssemblySize
    >= a.totalExpectedSize

shouldCompleteCurrentAssembly(a) ==
  IF a.nextStorageIndex = 0
  THEN a.currentAssemblySize >= a.options.playbackChunkSize
  ELSE a.currentAssemblySize >= a.options.storageChunkSize \/ isLastAssemblyChunk(a)

\* Variant: listeners are notified before the playback-ready callback.
completeCurrentAssembly_notifyFirst(a) ==
  IF ~a.currentAssemblyBuffer.has \/ Len(a.currentDownloadChunks) = 0
  THEN a
  ELSE
    LET assemblyChunk ==
          [storageIndex     |-> a.nextStorageIndex,
           downloadChunks   |-> a.currentDownloadChunks,
           totalSize        |-> a.currentAssemblySize,
           data             |-> a.currentAssemblyBuffer.bytes,
           canStartPlayback |-> a.nextStorageIndex = 0 /\ ~a.isPlaybackReady]
        ready == IF assemblyChunk.canStartPlayback
                 THEN <<[cb |-> "onPlaybackReady", chunk |-> assemblyChunk]>>
                 ELSE <<>>
    IN [a EXCEPT
          !.assembledChunks       = MapSet(a.assembledChunks, a.nextStorageIndex, assemblyChunk),
          !.isPlaybackReady       = a.isPlaybackReady \/ assemblyChunk.canStartPlayback,
          !.events                = a.events
                                      \o <<[cb |-> "onChunkAssembled", chunk |-> assemblyChunk]>>
                                      \o ready,
          !.nextStorageIndex      = a.nextStorageIndex + 1,
          !.currentAssemblyBuffer = NullBuffer,
          !.currentAssemblySize   = 0,
          !.currentDownloadChunks = <<>>]

completeCurrentAssembly(a) ==
  IF ~a.currentAssemblyBuffer.has \/ Len(a.currentDownloadChunks) = 0
  THEN a
  ELSE
    LET assemblyChunk ==
          [storageIndex     |-> a.nextStorageIndex,
           downloadChunks   |-> a.currentDownloadChunks,
           totalSize        |-> a.currentAssemblySize,
           data             |-> a.currentAssemblyBuffer.bytes,
           canStartPlayback |-> a.nextStorageIndex = 0 /\ ~a.isPlaybackReady]
        ready == IF assemblyChunk.canStartPlayback
                 THEN <<[cb |-> "onPlaybackReady", chunk |-> assemblyChunk]>>
                 ELSE <<>>
    IN [a EXCEPT
          !.assembledChunks       = MapSet(a.assembledChunks, a.nextStorageIndex, assemblyChunk),
          !.isPlaybackReady       = a.isPlaybackReady \/ assemblyChunk.canStartPlayback,
          !.events                = a.events \o ready
                                      \o <<[cb |-> "onChunkAssembled", chunk |-> assemblyChunk]>>,
          !.nextStorageIndex      = a.nextStorageIndex + 1,
          !.currentAssemblyBuffer = NullBuffer,
          !.currentAssemblySize   = 0,
          !.currentDownloadChunks = <<>>]

checkForAssemblyCompletion(a) ==
  IF ~a.currentAssemblyBuffer.has THEN a
  ELSE IF shouldCompleteCurrentAssembly(a) THEN completeCurrentAssembly(a)
  ELSE a

\* Variant: the bytes already accumulated are not copied into the new buffer.
processDownloadChunk_dropExisting(a, chunk) ==
  LET newTotalSize == a.currentAssemblySize + Len(chunk.data)
      combined == [k \in 1..newTotalSize |->
                     IF k > a.currentAssemblySize /\ k - a.currentAssemblySize <= Len(chunk.data)
                     THEN chunk.data[k - a.currentAssemblySize]
                     ELSE 0]
  IN checkForAssemblyCompletion(
       [a EXCEPT !.currentDownloadChunks = Append(a.currentDownloadChunks, chunk),
                 !.currentAssemblyBuffer = SomeBuffer(combined),
                 !.currentAssemblySize   = newTotalSize])

processDownloadChunk(a, chunk) ==
  LET existing == IF a.currentAssemblyBuffer.has THEN a.currentAssemblyBuffer.bytes ELSE <<>>
      newTotalSize == a.currentAssemblySize + Len(chunk.data)
      \* combinedView.set(existingView, 0); combinedView.set(chunkView, currentAssemblySize)
      combined == [k \in 1..newTotalSize |->
                     IF k > a.currentAssemblySize /\ k - a.currentAssemblySize <= Len(chunk.data)
                     THEN chunk.data[k - a.currentAssemblySize]
                     ELSE IF k <= Len(existing) THEN existing[k] ELSE 0]
  IN checkForAssemblyCompletion(
       [a EXCEPT !.currentDownloadChunks = Append(a.currentDownloadChunks, chunk),
                 !.currentAssemblyBuffer = SomeBuffer(combined),
                 !.currentAssemblySize   = newTotalSize])

RECURSIVE processLoop(_, _)
processLoop(a, nextIndex) ==
  IF MapHas(a.downloadChunks, nextIndex)
  THEN LET b == processDownloadChunk(a, a.downloadChunks[nextIndex])
       IN processLoop([b EXCEPT !.downloadChunks = MapDelete(b.downloadChunks, nextIndex)],
                      nextIndex + 1)
  ELSE a

processAvailableChunks(a) == processLoop(a, getNextSequentialIndex(a))

addDownloadChunk(a, chunk) ==
  processAvailableChunks([a EXCEPT !.downloadChunks = MapSet(a.downloadChunks, chunk.index, chunk)])

finalize(a) ==
  IF a.currentAssemblyBuffer.has /\ Len(a.currentDownloadChunks) > 0
  THEN completeCurrentAssembly(a)
  ELSE a

\* ------------------------------------------------------------------------
\* One assembler driven by a caller (SpecAsm)
\* ------------------------------------------------------------------------

AsmOptions ==
  [playbackChunkSize : 1..MaxPlaybackChunk, storageChunkSize : 1..MaxStorageChunk]

AsmInit ==
  /\ \E opts \in AsmOptions : asm = NewAssembler(opts)
  /\ \E n \in 0..MaxFile : plan \in Compositions(n)
  /\ added = <<>>
  /\ phase = "new"

AsmInitialize ==
  /\ asm' = initialize(asm, SumSeq(plan))
  /\ added' = <<>>
  /\ phase' = "initialized"
  /\ UNCHANGED <<plan, engineVars, mgrVars, dlVars, storeVars>>

AsmAddDownloadChunk(i) ==
  /\ phase = "initialized"
  /\ Len(added) < Len(plan) + MaxExtraAdds
  /\ asm' = addDownloadChunk(asm, DownloadChunkOf(plan, i))
  /\ added' = Append(added, i)
  /\ UNCHANGED <<plan, phase, engineVars, mgrVars, dlVars, storeVars>>

AsmFinalize ==
  /\ phase = "initialized"
  /\ asm' = finalize(asm)
  /\ phase' = "finalized"
  /\ UNCHANGED <<plan, added, engineVars, mgrVars, dlVars, storeVars>>

AsmNext ==
  \/ AsmInitialize
  \/ \E i \in 0..(Len(plan) - 1) : AsmAddDownloadChunk(i)
  \/ AsmFinalize


\* ------------------------------------------------------------------------
\* Properties of the assembler
\* ------------------------------------------------------------------------

\* The blocks handed to onChunkAssembled since initialize(), in emission order
EmittedBlocks ==
  LET ev == SelectSeq(asm.events, LAMBDA e : e.cb = "onChunkAssembled")
  IN [i \in 1..Len(ev) |-> ev[i].chunk]

RECURSIVE ConcatFrom(_, _, _)
ConcatFrom(blocks, k, maxIndex) ==
  IF k > maxIndex THEN <<>>
  ELSE LET RECURSIVE PayloadsOf(_)
           PayloadsOf(bs) == IF bs = <<>> THEN <<>>
                             ELSE (IF Head(bs).storageIndex = k THEN Head(bs).data ELSE <<>>)
                                    \o PayloadsOf(Tail(bs))
       IN PayloadsOf(blocks) \o ConcatFrom(blocks, k + 1, maxIndex)

\* Payloads of the emitted blocks, concatenated in storageIndex order
ConcatInStorageOrder(blocks) ==
  IF blocks = <<>> THEN <<>>
  ELSE ConcatFrom(blocks, 0,
         CHOOSE m \in {b.storageIndex : b \in Range(blocks)} :
           \A b \in Range(blocks) : b.storageIndex <= m)

\* Number of (block, position) places at which fragment i is listed
Occurrences(blocks, i) ==
  Cardinality({<<b, j>> \in (DOMAIN blocks) \X (1..MaxFile + MaxExtraAdds + 1) :
                 j \in DOMAIN blocks[b].downloadChunks /\ blocks[b].downloadChunks[j].index = i})

InOrderRun ==
  /\ phase = "finalized"
  /\ added = [i \in 1..Len(plan) |-> i - 1]

\* C1: after initialize(totalSize), addDownloadChunk of fragments 0..n-1 in
\* increasing order and finalize(), the payloads of the emitted blocks,
\* concatenated in storageIndex order, are the file byte for byte, and every
\* fragment index is listed by exactly one block.
C1_RoundTrip ==
  InOrderRun =>
    /\ ConcatInStorageOrder(EmittedBlocks) = FileBytes(SumSeq(plan))
    /\ \A i \in 0..(Len(plan) - 1) : Occurrences(EmittedBlocks, i) = 1

C1_Witness ==
  /\ InOrderRun
  /\ Len(plan) >= 3
  /\ Len(EmittedBlocks) >= 2
  /\ \E b \in DOMAIN EmittedBlocks : Len(EmittedBlocks[b].downloadChunks) >= 2
  /\ ConcatInStorageOrder(EmittedBlocks) = FileBytes(SumSeq(plan))

ReadyPositions == {p \in DOMAIN asm.events : asm.events[p].cb = "onPlaybackReady"}

BlockZeroPositions ==
  {p \in DOMAIN asm.events :
     asm.events[p].cb = "onChunkAssembled" /\ asm.events[p].chunk.storageIndex = 0}

\* C5: per initialize(), onPlaybackReady is raised at most once; it is raised
\* exactly when block 0 is sealed (never for a later block), and it comes
\* immediately before the onChunkAssembled notification of block 0.
C5_PlaybackReadyOnce ==
  /\ Cardinality(ReadyPositions) <= 1
  /\ Cardinality(ReadyPositions) = Cardinality(BlockZeroPositions)
  /\ \A p \in ReadyPositions :
       /\ asm.events[p].chunk.storageIndex = 0
       /\ p + 1 \in BlockZeroPositions
  /\ (phase = "finalized" /\ getNextSequentialIndex(asm) > 0) => Cardinality(ReadyPositions) = 1

C5_Witness ==
  /\ phase = "finalized"
  /\ Cardinality(ReadyPositions) = 1
  /\ Len(EmittedBlocks) >= 3

\* Size the block with storageIndex k would have if blocks were cut at the
\* configured targets: playbackChunkSize for block 0, storageChunkSize for
\* the later ones, the remainder of the file for the last.
TargetBlockSize(k, total) ==
  IF k = 0 THEN Min(asm.options.playbackChunkSize, total)
  ELSE Min(asm.options.storageChunkSize,
           total - asm.options.playbackChunkSize - (k - 1) * asm.options.storageChunkSize)

\* C16: after an in-order run, the emitted blocks carry storageIndex 0,1,2,...
\* once each, block 0 has exactly the first-playable target size (or is the
\* whole file when the file is smaller), every later block but the last has
\* exactly the storage target size and the last holds the remainder.
C16_BlockSizing ==
  InOrderRun =>
    /\ \A b \in DOMAIN EmittedBlocks : EmittedBlocks[b].storageIndex = b - 1
    /\ \A b \in DOMAIN EmittedBlocks :
         EmittedBlocks[b].totalSize = TargetBlockSize(b - 1, SumSeq(plan))

\* Bytes of the fragments processed so far: sealed blocks plus the block in progress
ProcessedBytes ==
  SumOverKeys(asm.assembledChunks, DOMAIN asm.assembledChunks, "totalSize")
    + asm.currentAssemblySize

\* C17: once the addDownloadChunk calls have brought the processed bytes to
\* totalExpectedSize, no block is left in progress and playback is ready,
\* before finalize() is called, for every storageIndex including 0.
C17_LastBlockRule ==
  (phase = "initialized" /\ asm.totalExpectedSize > 0
     /\ ProcessedBytes = asm.totalExpectedSize)
    => /\ ~asm.currentAssemblyBuffer.has
       /\ asm.currentAssemblySize = 0
       /\ asm.isPlaybackReady

\* Payload bytes of sealed blocks still referenced by the assembler, in the
\* blocks themselves and in the source fragments they list
RetainedSealedBytes ==
  LET RECURSIVE Over(_)
      Over(ks) ==
        IF ks = {} THEN 0
        ELSE LET k == CHOOSE x \in ks : TRUE
                 c == asm.assembledChunks[k]
             IN Len(c.data)
                  + SumSeq([j \in DOMAIN c.downloadChunks |-> Len(c.downloadChunks[j].data)])
                  + Over(ks \ {k})
  IN Over(DOMAIN asm.assembledChunks)

\* C18: the assembler holds the payload of at most the block in progress: it
\* retains no payload and no source fragment of a sealed block, and after
\* finalize() no block is in progress.
C18_AssemblerMemory ==
  /\ RetainedSealedBytes = 0
  /\ phase = "finalized" => ~asm.currentAssemblyBuffer.has

\* Callbacks invoked by the assembler other than the two block notifications
AssemblyErrors ==
  {p \in DOMAIN asm.events : asm.events[p].cb \notin {"onPlaybackReady", "onChunkAssembled"}}

DuplicateAdded == \E p, q \in DOMAIN added : p < q /\ added[p] = added[q]

OutOfOrderAdded == \E p, q \in DOMAIN added : p < q /\ added[q] < added[p]

MissingAtFinalize ==
  phase = "finalized" /\ \E i \in 0..(Len(plan) - 1) : i \notin Range(added)

\* C19: when a fragment index has been added twice or out of increasing
\* order, or is missing when finalize() is called, the assembler has reported
\* an assembly error; no emitted block sequence omits or repeats a fragment
\* without such a report.
C19_MismatchReported ==
  /\ (DuplicateAdded \/ OutOfOrderAdded \/ MissingAtFinalize) => AssemblyErrors # {}
  /\ (phase = "finalized" /\ EmittedBlocks # <<>>
        /\ \E i \in 0..(Len(plan) - 1) : Occurrences(EmittedBlocks, i) # 1)
       => AssemblyErrors # {}

\* ========================================================================
\* Part 2: AudioPlaybackProcessor (the realtime playback engine)
\* ========================================================================

\* Sample rates (samples per second) and channel lengths (samples) of the
\* buffers sent to the engine, and the track ids in use.
Rates == {4, 8}

BufferLens == {4, 8}

\* The decoded buffers in use: <<channel length, sample rate>>
BufferShapes == {<<4, 8>>, <<8, 8>>, <<8, 4>>}

\* Channels of the node's output: the node is created with the default
\* options and has no input connected, so its single output is mono
OutputChannels == 1

\* The buffers scheduled for a later switch
ScheduledShapes == {<<8, 4>>}

Tracks == {"A", "B"}

\* Times are counted in units of 1/TimeDen second; TimeDen is the least
\* common multiple of the sample rates and of 4 (0.75 s is then a whole
\* number of units).
TimeDen ==
  CHOOSE d \in 1..64 :
    /\ \A r \in Rates \cup {4} : d % r = 0
    /\ \A e \in 1..(d - 1) : \E r \in Rates \cup {4} : e % r # 0

\* The guard interval before the end of a buffer: 0.75 s
EarlyStopGuard == (3 * TimeDen) \div 4

\* Samples rendered per tick (output[0].length)
Quantum == 2

MaxScheduled == 2

SeekTimes == {0, 3}

SwitchTimes == {0, 4}

\* samples / sampleRate, in time units (exact: every rate divides TimeDen)
SamplesToTime(samples, rate) == (samples * TimeDen) \div rate

\* Math.floor(seconds * sampleRate)
FloorSamples(t, rate) == (t * rate) \div TimeDen

\* Math.round(seconds * sampleRate): nearest, halves upwards
RoundSamples(t, rate) == (2 * t * rate + TimeDen) \div (2 * TimeDen)

\* Float32Array[] holding the audio of one buffer
NoChannelData == [has |-> FALSE, owner |-> "", len |-> 0, chans |-> 0]

ChannelData(owner, len, chans) == [has |-> TRUE, owner |-> owner, len |-> len, chans |-> chans]

\* The fields of an AudioPlaybackProcessor after its constructor.  A field
\* that is null holds {}, one that is set holds {value}; sampleRate,
\* numberOfChannels and totalSamples are undefined (0) until a buffer is set.
NewProcessor ==
  [isPlaying                  |-> FALSE,
   currentTime                |-> 0,
   duration                   |-> 0,
   bufferSourcePosition       |-> 0,
   scheduledBuffers           |-> <<>>,
   currentBufferIndex         |-> 0,
   nextSwitchTime             |-> {},
   currentBufferEarlyStopTime |-> {},
   currentTrackId             |-> {},
   hasLoggedEarlyStopContinue |-> FALSE,
   isIOSSafari                |-> FALSE,
   iosSampleRate              |-> 0,
   audioChannelData           |-> NoChannelData,
   sampleRate                 |-> 0,
   numberOfChannels           |-> 0,
   totalSamples               |-> 0]

\* What a handler leaves behind: the processor, the messages it posted to
\* the main thread, and whether it ended by throwing.
Done(w, out) == [w |-> w, out |-> out, threw |-> FALSE]

Threw(w) == [w |-> w, out |-> <<>>, threw |-> TRUE]

autoResetForNewSong(w, newTrackId) ==
  [w EXCEPT !.scheduledBuffers           = <<>>,
            !.currentBufferIndex         = 0,
            !.nextSwitchTime             = {},
            !.currentBufferEarlyStopTime = {},
            !.hasLoggedEarlyStopContinue = FALSE,
            !.currentTrackId             = {newTrackId}]

\* this.isIOSSafari && this.iosSampleRate ? this.iosSampleRate : data.sampleRate
EffectiveRate(w, dataRate) ==
  IF w.isIOSSafari /\ w.iosSampleRate # 0 THEN w.iosSampleRate ELSE dataRate

\* Variant: a SET_BUFFER for the track already set appends its samples to
\* the buffer.
SetBuffer_append(w, data) ==
  LET newTrackId == data.trackId
      w1 == IF w.currentTrackId # {} /\ w.currentTrackId # {newTrackId}
            THEN autoResetForNewSong(w, newTrackId)
            ELSE IF w.currentTrackId = {}
                 THEN [w EXCEPT !.currentTrackId = {newTrackId}]
                 ELSE w
      rate == EffectiveRate(w1, data.sampleRate)
      total == IF w.currentTrackId = {newTrackId}
               THEN w.totalSamples + data.totalSamples ELSE data.totalSamples
      dur == SamplesToTime(total, rate)
  IN Done([w1 EXCEPT !.audioChannelData           =
                        [data.channelData EXCEPT !.len = total],
                     !.sampleRate                 = rate,
                     !.numberOfChannels           = data.numberOfChannels,
                     !.totalSamples               = total,
                     !.duration                   = dur,
                     !.currentBufferEarlyStopTime = {Max(0, dur - EarlyStopGuard)},
                     !.bufferSourcePosition       = 0,
                     !.currentTime                = 0], <<>>)

\* case 'SET_BUFFER'
SetBuffer(w, data) ==
  LET newTrackId == data.trackId
      w1 == IF w.currentTrackId # {} /\ w.currentTrackId # {newTrackId}
            THEN autoResetForNewSong(w, newTrackId)
            ELSE IF w.currentTrackId = {}
                 THEN [w EXCEPT !.currentTrackId = {newTrackId}]
                 ELSE w
      rate == EffectiveRate(w1, data.sampleRate)
      dur == SamplesToTime(data.totalSamples, rate)
  IN Done([w1 EXCEPT !.audioChannelData           = data.channelData,
                     !.sampleRate                 = rate,
                     !.numberOfChannels           = data.numberOfChannels,
                     !.totalSamples               = data.totalSamples,
                     !.duration                   = dur,
                     !.currentBufferEarlyStopTime = {Max(0, dur - EarlyStopGuard)},
                     !.bufferSourcePosition       = 0,
                     !.currentTime                = 0], <<>>)

\* case 'PLAY'
Play(w) == Done([w EXCEPT !.isPlaying = TRUE], <<>>)

\* case 'PAUSE'
Pause(w) == Done([w EXCEPT !.isPlaying = FALSE], <<>>)

\* case 'SEEK'
Seek(w, data) ==
  IF w.audioChannelData.has /\ w.sampleRate # 0
  THEN Done([w EXCEPT !.bufferSourcePosition = FloorSamples(data.time, w.sampleRate),
                      !.currentTime          = data.time], <<>>)
  ELSE Done(w, <<>>)

\* case 'REPLACE_BUFFER'
ReplaceBuffer(w, data) ==
  IF w.currentTrackId # {} /\ w.currentTrackId # {data.trackId}
  THEN Done(w, <<>>)
  ELSE
    LET rate == EffectiveRate(w, data.sampleRate)
        dur == SamplesToTime(data.totalSamples, rate)
        position ==
          IF data.currentPosition # {}
          THEN LET requested == FloorSamples(CHOOSE p \in data.currentPosition : TRUE, rate)
               IN Min(requested, data.totalSamples - 1)
          ELSE Min(w.bufferSourcePosition, data.totalSamples - 1)
    IN Done([w EXCEPT !.audioChannelData           = data.channelData,
                      !.sampleRate                 = rate,
                      !.numberOfChannels           = data.numberOfChannels,
                      !.totalSamples               = data.totalSamples,
                      !.duration                   = dur,
                      !.currentBufferEarlyStopTime = {Max(0, dur - EarlyStopGuard)},
                      !.bufferSourcePosition       = position,
                      !.currentTime                = SamplesToTime(position, rate)], <<>>)

\* case 'GET_CURRENT_POSITION'
GetCurrentPosition(w, data) ==
  Done(w, <<[type           |-> "CURRENT_POSITION_RESPONSE",
             currentTime    |-> w.currentTime,
             samplePosition |-> w.bufferSourcePosition,
             duration       |-> w.duration]>>)

\* case 'SCHEDULE_BUFFER_SWITCH'
ScheduleBufferSwitch(w, data) ==
  IF w.currentTrackId # {} /\ w.currentTrackId # {data.trackId}
  THEN Done(w, <<>>)
  ELSE
    LET bufferData ==
          [trackId          |-> data.trackId,
           channelData      |-> data.channelData,
           sampleRate       |-> data.sampleRate,
           numberOfChannels |-> data.numberOfChannels,
           totalSamples     |-> data.totalSamples,
           duration         |-> SamplesToTime(data.totalSamples, data.sampleRate),
           \* data.switchTime || null
           switchTime       |-> IF data.switchTime = 0 THEN {} ELSE {data.switchTime}]
        pushed == Append(w.scheduledBuffers, bufferData)
        w1 == [w EXCEPT !.scheduledBuffers = pushed]
    IN IF Len(pushed) = w.currentBufferIndex + 1
       THEN IF bufferData.switchTime = {0}
            THEN Done([w1 EXCEPT !.currentBufferIndex = 0, !.nextSwitchTime = {}], <<>>)
            ELSE Done([w1 EXCEPT !.nextSwitchTime = bufferData.switchTime], <<>>)
       ELSE Done(w1, <<>>)

\* case 'IOS_CONFIG'
IOSConfig(w, data) ==
  Done([w EXCEPT !.isIOSSafari = data.isIOSSafari, !.iosSampleRate = data.sampleRate], <<>>)

\* port.onmessage: const { type, data } = event.data; a message without a
\* data member leaves data undefined, and the first read of a member of data
\* throws a TypeError.
onmessage(w, msg) ==
  CASE msg.type = "PLAY"  -> Play(w)
    [] msg.type = "PAUSE" -> Pause(w)
    [] msg.type = "SEEK"  ->
         IF ~msg.hasData /\ w.audioChannelData.has /\ w.sampleRate # 0 THEN Threw(w)
         ELSE Seek(w, msg.data)
    [] msg.type = "SET_BUFFER" ->
         IF ~msg.hasData THEN Threw(w) ELSE SetBuffer(w, msg.data)
    [] msg.type = "REPLACE_BUFFER" ->
         IF ~msg.hasData THEN Threw(w) ELSE ReplaceBuffer(w, msg.data)
    [] msg.type = "GET_CURRENT_POSITION" ->
         IF ~msg.hasData THEN Threw(w) ELSE GetCurrentPosition(w, msg.data)
    [] msg.type = "SCHEDULE_BUFFER_SWITCH" ->
         IF ~msg.hasData THEN Threw(w) ELSE ScheduleBufferSwitch(w, msg.data)
    [] msg.type = "IOS_CONFIG" ->
         IF ~msg.hasData THEN Threw(w) ELSE IOSConfig(w, msg.data)
    [] OTHER -> Done(w, <<>>)

\* performBufferSwitch(); scheduledBuffers[k] of the source is
\* scheduledBuffers[k + 1] here (sequences start at 1)
performBufferSwitch(w) ==
  IF w.currentBufferIndex + 1 >= Len(w.scheduledBuffers)
  THEN Done([w EXCEPT !.nextSwitchTime = {}], <<>>)
  ELSE
    LET nextBuffer == w.scheduledBuffers[w.currentBufferIndex + 2]
    IN IF w.currentTrackId # {} /\ w.currentTrackId # {nextBuffer.trackId}
       THEN Done([w EXCEPT !.nextSwitchTime = {}], <<>>)
       ELSE
         LET newIndex == w.currentBufferIndex + 1
             currentSamplePosition == FloorSamples(w.currentTime, nextBuffer.sampleRate)
             w1 == [w EXCEPT
                      !.audioChannelData           = nextBuffer.channelData,
                      !.sampleRate                 = nextBuffer.sampleRate,
                      !.numberOfChannels           = nextBuffer.numberOfChannels,
                      !.totalSamples               = nextBuffer.totalSamples,
                      !.duration                   = nextBuffer.duration,
                      !.currentBufferEarlyStopTime = {Max(0, nextBuffer.duration - EarlyStopGuard)},
                      !.bufferSourcePosition       =
                          Min(currentSamplePosition, nextBuffer.totalSamples - 1),
                      !.currentBufferIndex         = newIndex,
                      !.nextSwitchTime             =
                          IF newIndex + 1 < Len(w.scheduledBuffers)
                          THEN w.scheduledBuffers[newIndex + 2].switchTime
                          ELSE {}]
         IN Done(w1, <<[type           |-> "BUFFER_SWITCHED",
                        newBufferIndex |-> newIndex,
                        newDuration    |-> w1.duration,
                        currentTime    |-> w1.currentTime]>>)

\* process(), lines 254-272: the early-stop and scheduled-switch checks
checkSwitch(w) ==
  IF w.currentBufferEarlyStopTime # {}
       /\ \A t \in w.currentBufferEarlyStopTime : w.currentTime >= t
  THEN IF Len(w.scheduledBuffers) > w.currentBufferIndex + 1
       THEN performBufferSwitch([w EXCEPT !.hasLoggedEarlyStopContinue = FALSE])
       ELSE Done([w EXCEPT !.hasLoggedEarlyStopContinue = TRUE], <<>>)
  ELSE IF w.nextSwitchTime # {} /\ \A t \in w.nextSwitchTime : w.currentTime >= t
       THEN performBufferSwitch(w)
       ELSE Done(w, <<>>)

\* process(), lines 274-318: render one quantum into outChannels output
\* channels, detect the end of the audio, update the time
render(w, outChannels) ==
  LET start == w.bufferSourcePosition
      channelIndex(channel) == Min(channel, w.numberOfChannels - 1)
      valid(channel) == channelIndex(channel) \in 0..(w.audioChannelData.chans - 1)
      \* channel 0 advances the cursor once per sample; it reads past the end
      \* when its last read is at or after inputChannel.length
      endedOnFirst == start + Quantum - 1 >= w.audioChannelData.len
      \* later channels read at the already advanced cursor
      endedOnLater == outChannels > 1 /\ start + Quantum >= w.audioChannelData.len
      audioEnded == endedOnFirst \/ endedOnLater
      moved == [w EXCEPT !.bufferSourcePosition = start + Quantum]
      newTime == SamplesToTime(start + Quantum, w.sampleRate)
      stopped == [moved EXCEPT !.isPlaying   = IF audioEnded THEN FALSE ELSE moved.isPlaying,
                               !.currentTime = newTime]
      timeUpdate ==
        IF (newTime * 10) \div TimeDen
             # ((newTime - SamplesToTime(Quantum, w.sampleRate)) * 10) \div TimeDen
        THEN <<[type |-> "TIME_UPDATE", currentTime |-> newTime, duration |-> w.duration]>>
        ELSE <<>>
  IN IF ~valid(0) THEN Threw(w)
     ELSE IF \E c \in 1..(outChannels - 1) : ~valid(c) THEN Threw(moved)
     ELSE Done(stopped,
               (IF audioEnded /\ w.isPlaying THEN <<[type |-> "ENDED"]>> ELSE <<>>)
                 \o timeUpdate)

\* process(inputs, outputs, parameters)
process(w, outChannels) ==
  IF ~w.audioChannelData.has \/ ~w.isPlaying
  THEN Done(w, <<>>)
  ELSE LET switched == checkSwitch(w)
           rendered == render(switched.w, outChannels)
       IN [rendered EXCEPT !.out = switched.out \o rendered.out]

\* ------------------------------------------------------------------------
\* SpecEngine: the processor, its message port and the render clock
\* ------------------------------------------------------------------------

\* The cursor is not advanced further than this by the checked runs
MaxCursor == (CHOOSE m \in BufferLens : \A l \in BufferLens : l <= m) + 2 * Quantum

Command(type) == [type |-> type, hasData |-> FALSE, data |-> [none |-> TRUE]]

CommandWith(type, data) == [type |-> type, hasData |-> TRUE, data |-> data]

BufferFields(trackId, len, rate) ==
  [trackId          |-> trackId,
   channelData      |-> ChannelData(trackId, len, 1),
   sampleRate       |-> rate,
   numberOfChannels |-> 1,
   totalSamples     |-> len]

\* Main thread, audioWorkletNode.port.onmessage: position of the last
\* TIME_UPDATE / CURRENT_POSITION_RESPONSE among the messages out
RECURSIVE PositionAfter(_, _)
PositionAfter(position, out) ==
  IF out = <<>> THEN position
  ELSE PositionAfter(IF Head(out).type \in {"TIME_UPDATE", "POSITION_RESPONSE",
                                             "CURRENT_POSITION_RESPONSE"}
                     THEN Head(out).currentTime ELSE position,
                     Tail(out))

EndedIn(out) == Cardinality({i \in DOMAIN out : out[i].type = "ENDED"})

\* Places of the queue that have been made active, after a step of the
\* processor from w to w2
ActivatedAfter(act, w, w2) ==
  IF w2.scheduledBuffers = <<>> THEN {}
  ELSE IF w2.currentBufferIndex = w.currentBufferIndex + 1
       THEN act \cup {w2.currentBufferIndex + 1}
       ELSE act

EngineInit ==
  /\ worklet = NewProcessor
  /\ port = <<>>
  /\ lastKnownPosition = 0
  /\ endedCount = 0
  /\ activated = {}

\* A command arrives at the port and is handled
Post(msg) ==
  /\ LET r == onmessage(worklet, msg)
     IN /\ worklet' = r.w
        /\ endedCount' = IF msg.type = "SET_BUFFER" /\ ~r.threw THEN 0 ELSE endedCount
        /\ activated' = ActivatedAfter(activated, worklet, r.w)
  /\ UNCHANGED <<port, lastKnownPosition, asmVars, dlVars, storeVars, mgrVars>>

PostSetBuffer(trackId, shape) ==
  Post(CommandWith("SET_BUFFER", BufferFields(trackId, shape[1], shape[2])))

PostPlay == Post(Command("PLAY"))

PostPause == Post(Command("PAUSE"))

PostSeek(time) == Post(CommandWith("SEEK", [time |-> time]))

PostReplaceBuffer(trackId, shape, currentPosition) ==
  Post(CommandWith("REPLACE_BUFFER",
         [trackId          |-> trackId,
          channelData      |-> ChannelData(trackId, shape[1], 1),
          sampleRate       |-> shape[2],
          numberOfChannels |-> 1,
          totalSamples     |-> shape[1],
          currentPosition  |-> currentPosition]))

PostScheduleBufferSwitch(trackId, shape, switchTime) ==
  /\ Len(worklet.scheduledBuffers) < MaxScheduled
  /\ Post(CommandWith("SCHEDULE_BUFFER_SWITCH",
            [trackId          |-> trackId,
             channelData      |-> ChannelData(trackId, shape[1], 1),
             sampleRate       |-> shape[2],
             numberOfChannels |-> 1,
             totalSamples     |-> shape[1],
             switchTime       |-> switchTime]))

PostGetCurrentPosition == Post(CommandWith("GET_CURRENT_POSITION", [requestId |-> "r"]))

\* Sent once, by initialize(), before any other command
PostIOSConfig(rate) ==
  /\ worklet = NewProcessor
  /\ Post(CommandWith("IOS_CONFIG", [isIOSSafari |-> TRUE, sampleRate |-> rate]))

HandleMessage ==
  /\ port # <<>>
  /\ LET msg == Head(port)
         r == onmessage(worklet, msg)
     IN /\ worklet' = r.w
        /\ lastKnownPosition' = PositionAfter(lastKnownPosition, r.out)
        /\ endedCount' = IF msg.type = "SET_BUFFER" /\ ~r.threw THEN 0 ELSE endedCount
        /\ activated' = ActivatedAfter(activated, worklet, r.w)
  /\ port' = Tail(port)
  /\ UNCHANGED <<asmVars, dlVars, storeVars, mgrVars>>

RenderTick ==
  /\ worklet.bufferSourcePosition < MaxCursor
  /\ LET r == process(worklet, OutputChannels)
     IN /\ worklet' = r.w
        /\ endedCount' = Min(endedCount + EndedIn(r.out), 2)
        /\ activated' = ActivatedAfter(activated, worklet, r.w)
  /\ UNCHANGED <<port, lastKnownPosition, asmVars, dlVars, storeVars, mgrVars>>

EngineNext ==
  \/ \E t \in Tracks, shape \in BufferShapes : PostSetBuffer(t, shape)
  \/ PostPlay
  \/ PostPause
  \/ \E time \in SeekTimes : PostSeek(time)
  \/ \E t \in Tracks, shape \in BufferShapes, p \in {{}} \cup {{time} : time \in SeekTimes} :
       PostReplaceBuffer(t, shape, p)
  \/ \E t \in Tracks, shape \in ScheduledShapes, sw \in SwitchTimes :
       PostScheduleBufferSwitch(t, shape, sw)
  \/ PostGetCurrentPosition
  \/ RenderTick

\* ------------------------------------------------------------------------
\* Properties of the processor
\* ------------------------------------------------------------------------

\* C4: between two SET_BUFFER commands, with nothing queued behind the
\* active buffer, the processor emits ENDED at most once.
C4_EndedAtMostOnce ==
  worklet.scheduledBuffers = <<>> => endedCount <= 1

\* The entries of the queue that belong to the current track and have not
\* been made active
PendingScheduled ==
  {k \in DOMAIN worklet.scheduledBuffers :
     /\ k \notin activated
     /\ worklet.currentTrackId = {worklet.scheduledBuffers[k].trackId}}

AtEarlyStop ==
  /\ worklet.isPlaying
  /\ worklet.audioChannelData.has
  /\ worklet.currentBufferEarlyStopTime # {}
  /\ \A t \in worklet.currentBufferEarlyStopTime : worklet.currentTime >= t

\* C6: a render tick that starts while playing at or past the early-stop
\* time of the active buffer, with a buffer of the current track scheduled
\* and not yet active, makes the oldest such buffer the active one.
C6_SwitchTrigger ==
  (AtEarlyStop /\ PendingScheduled # {}) =>
     LET oldest == CHOOSE k \in PendingScheduled : \A j \in PendingScheduled : k <= j
         r == process(worklet, OutputChannels)
     IN /\ ActivatedAfter(activated, worklet, r.w) = activated \cup {oldest}
        /\ r.w.totalSamples = worklet.scheduledBuffers[oldest].totalSamples
        /\ r.w.sampleRate = worklet.scheduledBuffers[oldest].sampleRate

\* C7: right after a switch to a scheduled buffer the cursor is
\* round(t * newSampleRate), t being the playback time at the switch.
C7_SwitchOffsetRounded ==
  (worklet.isPlaying /\ worklet.audioChannelData.has) =>
     LET r == checkSwitch(worklet)
     IN r.w.currentBufferIndex = worklet.currentBufferIndex + 1 =>
          r.w.bufferSourcePosition = RoundSamples(worklet.currentTime, r.w.sampleRate)

\* C8: after SET_BUFFER is handled, for the current track or another one,
\* the queue is empty, the active index is 0, no switch time is pending and
\* the cursor and the playback time are 0.
C8_SetBufferResets ==
  \A t \in Tracks, shape \in BufferShapes :
    LET r == onmessage(worklet, CommandWith("SET_BUFFER", BufferFields(t, shape[1], shape[2])))
    IN /\ ~r.threw
       /\ r.w.scheduledBuffers = <<>>
       /\ r.w.currentBufferIndex = 0
       /\ r.w.nextSwitchTime = {}
       /\ r.w.bufferSourcePosition = 0
       /\ r.w.currentTime = 0

\* C9: a REPLACE_BUFFER or SCHEDULE_BUFFER_SWITCH for a track other than the
\* one the processor is playing leaves the processor as it was, in every
\* state, the state before the first SET_BUFFER included.
C9_OtherTrackRejected ==
  \A t \in Tracks, shape \in BufferShapes :
    worklet.currentTrackId # {t} =>
      /\ \A p \in {{}} \cup {{time} : time \in SeekTimes} :
           onmessage(worklet, CommandWith("REPLACE_BUFFER",
             BufferFields(t, shape[1], shape[2]) @@ [currentPosition |-> p])).w = worklet
      /\ \A sw \in SwitchTimes :
           onmessage(worklet, CommandWith("SCHEDULE_BUFFER_SWITCH",
             BufferFields(t, shape[1], shape[2]) @@ [switchTime |-> sw])).w = worklet

\* C31: the buffers scheduled for the current track become active in the
\* order in which they were scheduled, whatever their switch times, and none
\* is skipped: when a place of the queue has become active, every earlier
\* place has.
C31_FifoScheduling ==
  \A k \in activated : \A j \in 1..(k - 1) : j \in activated

\* process() produces audio: a buffer is set and the processor is playing
Rendering(w) == w.audioChannelData.has /\ w.isPlaying

\* C32: SET_BUFFER never starts rendering, and a PLAY received while no
\* buffer is set does not put the processor into the rendering state: in
\* every state the processor is not rendering after it has handled
\* SET_BUFFER (it renders only once a PLAY has followed), nor after it has
\* handled PLAY without a buffer.
C32_ArmedBeforeRendering ==
  /\ \A t \in Tracks, shape \in BufferShapes :
       ~Rendering(onmessage(worklet, CommandWith("SET_BUFFER",
                                                 BufferFields(t, shape[1], shape[2]))).w)
  /\ ~worklet.audioChannelData.has => ~Rendering(onmessage(worklet, Command("PLAY")).w)

\* C33: handling SET_BUFFER twice in a row with the same trackId and the
\* same data leaves the processor in the state in which handling it once
\* leaves it, in every state of the processor.
C33_SetBufferIdempotent ==
  \A t \in Tracks, shape \in BufferShapes :
    LET msg   == CommandWith("SET_BUFFER", BufferFields(t, shape[1], shape[2]))
        once  == onmessage(worklet, msg)
        twice == onmessage(once.w, msg)
    IN /\ ~once.threw
       /\ ~twice.threw
       /\ twice.w = once.w
       /\ twice.out = <<>>

\* SET_BUFFER has been handled for the track that was playing, with a buffer
\* scheduled behind it: the processor is in the state SET_BUFFER leaves
C33_Witness ==
  /\ worklet.isPlaying
  /\ worklet.scheduledBuffers # <<>>
  /\ worklet.bufferSourcePosition = 0
  /\ \E t \in Tracks, shape \in BufferShapes :
       /\ worklet.currentTrackId = {t}
       /\ onmessage(worklet, CommandWith("SET_BUFFER",
                                         BufferFields(t, shape[1], shape[2]))).w = worklet

\* ------------------------------------------------------------------------
\* SpecEngineRaw: the processor under commands of any content
\* ------------------------------------------------------------------------

\* Channel lengths (an empty buffer included), declared channel counts and
\* numbers of channel payloads of the buffers, and seek times up to 1 s
RawLens == {0, 4}

RawChannelCounts == {1, 2}

RawPayloadCounts == {0, 1, 2}

RawSeekTimes == {0, 3, TimeDen}

RawBufferFields(trackId, len, numberOfChannels, payloads) ==
  [trackId          |-> trackId,
   channelData      |-> ChannelData(trackId, len, payloads),
   sampleRate       |-> 8,
   numberOfChannels |-> numberOfChannels,
   totalSamples     |-> len]

PostSetBufferRaw(trackId, len, numberOfChannels, payloads) ==
  Post(CommandWith("SET_BUFFER", RawBufferFields(trackId, len, numberOfChannels, payloads)))

PostReplaceBufferRaw(trackId, len, currentPosition) ==
  Post(CommandWith("REPLACE_BUFFER",
         RawBufferFields(trackId, len, 1, 1) @@ [currentPosition |-> currentPosition]))

EngineRawNext ==
  \/ \E t \in Tracks, len \in RawLens, n \in RawChannelCounts, payloads \in RawPayloadCounts :
       PostSetBufferRaw(t, len, n, payloads)
  \/ PostPlay
  \/ PostPause
  \/ \E time \in RawSeekTimes : PostSeek(time)
  \/ \E t \in Tracks, len \in RawLens, p \in {{}} \cup {{time} : time \in RawSeekTimes} :
       PostReplaceBufferRaw(t, len, p)
  \/ RenderTick

\* C34: no render tick raises an exception, in any state of the processor:
\* before a buffer is set, with a buffer of zero samples, with a channel
\* count that differs from the number of channel payloads, with the cursor
\* past the end of the buffer.
C34_RenderNeverThrows ==
  ~process(worklet, OutputChannels).threw

\* C40: in every state with a buffer set the cursor is at least 0 and at most
\* totalSamples plus one render quantum.
C40_CursorBounds ==
  worklet.audioChannelData.has =>
    /\ 0 <= worklet.bufferSourcePosition
    /\ worklet.bufferSourcePosition <= worklet.totalSamples + Quantum

\* ========================================================================
\* Part 3: WebAudioManager (instant playback)
\* ========================================================================

\* Calls of playInstantly() and play() made in one run
MaxSessions == 2

\* Size in bytes of the downloaded file; downloadAudio() returns it in
\* chunks of one byte, sorted by index
MgrFileSize == 3

\* Messages posted to the processor that it has not yet taken from its port
MaxPort == 2

DownloadPlan == [i \in 1..MgrFileSize |-> 1]

\* instantPlaybackConfig.playbackChunkSize and .storageChunkSize
InstantPlaybackConfig == [playbackChunkSize |-> 1, storageChunkSize |-> 2]

\* audioContext.decodeAudioData(assemblyChunk.data.slice(0)): four samples
\* per byte at the rate of the context
decodeAudioData(chunk) ==
  [length |-> 4 * chunk.totalSize, sampleRate |-> 8, numberOfChannels |-> 1]

\* The fields of a WebAudioManager after initialize(); streamingAssembler
\* holds the number of the call that created the assembler now in the field
NewManager ==
  [currentTrackId     |-> {},
   audioBuffers       |-> [t \in Tracks |-> {}],
   streamingAssembler |-> {}]

\* playInstantly(), lines 693-701: initialize, every chunk of the download in
\* order, finalize; the result is the callbacks the assembler has invoked
RECURSIVE AddAll(_, _, _)
AddAll(a, sizes, i) ==
  IF i >= Len(sizes) THEN a
  ELSE AddAll(addDownloadChunk(a, DownloadChunkOf(sizes, i)), sizes, i + 1)

AssembleDownload(sizes) ==
  finalize(AddAll(initialize(NewAssembler(InstantPlaybackConfig), SumSeq(sizes)),
                  sizes, 0)).events

\* A decodeAudioData() in flight, and what its continuation will use
DecodeOp(kind, trackId, chunk, session, position) ==
  [kind     |-> kind,
   trackId  |-> trackId,
   block    |-> chunk.storageIndex,
   buffer   |-> decodeAudioData(chunk),
   session  |-> session,
   position |-> position]

\* The callbacks given to the assembler, run up to their first await:
\* onPlaybackReady starts startPlaybackWithChunk; onChunkAssembled, for a
\* chunk after the first, starts seamlesslyReplaceBuffer, which returns at
\* once for a track that is not the current one and otherwise samples
\* getCurrentTime() before it decodes
CallbackDecodes(m, events, trackId, session, position) ==
  {DecodeOp("startPlaybackWithChunk", trackId, events[i].chunk, session, {}) :
     i \in {j \in DOMAIN events : events[j].cb = "onPlaybackReady"}}
  \cup
  {DecodeOp("seamlesslyReplaceBuffer", trackId, events[i].chunk, session, {position}) :
     i \in {j \in DOMAIN events :
              /\ events[j].cb = "onChunkAssembled"
              /\ events[j].chunk.storageIndex > 0
              /\ m.currentTrackId = {trackId}}}

\* port.postMessage({type, ...fields}).  The manager puts the fields next to
\* type ("flat"); the processor reads them from a member named data ("data").
PortMessage(layout, type, fields) ==
  IF layout = "data" THEN CommandWith(type, fields)
  ELSE [type |-> type, hasData |-> FALSE, data |-> [none |-> TRUE], fields |-> fields]

AudioFields(trackId, buffer) ==
  [trackId          |-> trackId,
   channelData      |-> ChannelData(trackId, buffer.length, buffer.numberOfChannels),
   sampleRate       |-> buffer.sampleRate,
   numberOfChannels |-> buffer.numberOfChannels,
   totalSamples     |-> buffer.length]

\* What the log of posted messages keeps of a message: the call it belongs
\* to, the block it carries, and whether a later call had been made by then
Posted(type, trackId, session, block) ==
  [type       |-> type,
   trackId    |-> trackId,
   session    |-> session,
   block      |-> block,
   superseded |-> session < Len(calls)]

\* An entry of audioBuffers
Stored(buffer, session, block) ==
  [buffer |-> buffer, session |-> session, block |-> block,
   superseded |-> session < Len(calls)]

\* ------------------------------------------------------------------------
\* SpecMgr: the manager, the decodes in flight, the port and the processor
\* ------------------------------------------------------------------------

MgrInit ==
  /\ manager = NewManager
  /\ calls = <<>>
  /\ decodes = {}
  /\ sent = <<>>

\* A call of playInstantly() or play(): where it stands (pc), the statuses
\* it has given to onProgressiveLoadingStatus (PROGRESS left out), the
\* number of times it has invoked onError, and the blocks whose decode was
\* rejected
NewCall(method, trackId, pc, status) ==
  [method   |-> method,
   trackId  |-> trackId,
   pc       |-> pc,
   status   |-> status,
   errors   |-> 0,
   rejected |-> {}]

\* playInstantly(url, trackId, name) up to its await of downloadAudio():
\* a new download manager and a new assembler are put in the fields
PlayInstantly(trackId) ==
  /\ Len(calls) < MaxSessions
  /\ calls' = Append(calls, NewCall("playInstantly", trackId, "downloadAudio", <<"STARTED">>))
  /\ manager' = [manager EXCEPT !.streamingAssembler = {Len(calls) + 1}]
  /\ UNCHANGED <<decodes, sent, engineVars, asmVars, dlVars, storeVars>>

\* playInstantly() after downloadAudio() has resolved: the download of call
\* session goes through the assembler that is in the field by now, whose
\* callbacks carry the trackId of the call that created it
DownloadResolved(session) ==
  /\ session \in DOMAIN calls
  /\ calls[session].pc = "downloadAudio"
  /\ LET creator == CHOOSE c \in manager.streamingAssembler : TRUE
     IN decodes' = decodes \cup
          CallbackDecodes(manager, AssembleDownload(DownloadPlan),
                          calls[creator].trackId, session, lastKnownPosition)
  /\ calls' = [calls EXCEPT ![session].pc = "done",
                            ![session].status = Append(@, "COMPLETED")]
  /\ UNCHANGED <<manager, sent, engineVars, asmVars, dlVars, storeVars>>

\* play(trackId) for a track that has a buffer in audioBuffers
PlayLoaded(trackId, layout) ==
  /\ Len(calls) < MaxSessions
  /\ Len(port) + 2 <= MaxPort
  /\ manager.audioBuffers[trackId] # {}
  /\ LET audioBuffer == CHOOSE b \in manager.audioBuffers[trackId] : TRUE
         session == Len(calls) + 1
     IN /\ port' = port \o <<PortMessage(layout, "SET_BUFFER",
                                         AudioFields(trackId, audioBuffer.buffer)),
                             Command("PLAY")>>
        /\ sent' = sent \o <<[Posted("SET_BUFFER", trackId, session, audioBuffer.block)
                                EXCEPT !.superseded = FALSE],
                             [Posted("PLAY", trackId, session, audioBuffer.block)
                                EXCEPT !.superseded = FALSE]>>
  /\ calls' = Append(calls, NewCall("play", trackId, "done", <<>>))
  /\ manager' = [manager EXCEPT !.currentTrackId = {trackId}]
  /\ UNCHANGED <<decodes, worklet, lastKnownPosition, endedCount, activated, asmVars, dlVars, storeVars>>

\* startPlaybackWithChunk() after its decode has resolved
StartDecoded(d, layout) ==
  /\ d \in decodes
  /\ d.kind = "startPlaybackWithChunk"
  /\ Len(port) + 2 <= MaxPort
  /\ manager' = [manager EXCEPT
                   !.currentTrackId = {d.trackId},
                   !.audioBuffers[d.trackId] = {Stored(d.buffer, d.session, d.block)}]
  /\ port' = port \o <<PortMessage(layout, "SET_BUFFER", AudioFields(d.trackId, d.buffer)),
                       Command("PLAY")>>
  /\ sent' = sent \o <<Posted("SET_BUFFER", d.trackId, d.session, d.block),
                       Posted("PLAY", d.trackId, d.session, d.block)>>
  /\ decodes' = decodes \ {d}
  /\ UNCHANGED <<calls, worklet, lastKnownPosition, endedCount, activated, asmVars, dlVars, storeVars>>

\* seamlesslyReplaceBuffer() after its decode has resolved
ReplaceDecoded(d, layout) ==
  /\ d \in decodes
  /\ d.kind = "seamlesslyReplaceBuffer"
  /\ Len(port) + 1 <= MaxPort
  /\ manager' = [manager EXCEPT
                   !.audioBuffers[d.trackId] = {Stored(d.buffer, d.session, d.block)}]
  /\ port' = Append(port, PortMessage(layout, "REPLACE_BUFFER",
                            AudioFields(d.trackId, d.buffer)
                              @@ [currentPosition |-> d.position]))
  /\ sent' = Append(sent, Posted("REPLACE_BUFFER", d.trackId, d.session, d.block))
  /\ decodes' = decodes \ {d}
  /\ UNCHANGED <<calls, worklet, lastKnownPosition, endedCount, activated, asmVars, dlVars, storeVars>>

\* Variant: a rejected decode pauses the processor.
DecodeRejected_pause(d) ==
  /\ d \in decodes
  /\ Len(port) + 1 <= MaxPort
  /\ decodes' = decodes \ {d}
  /\ calls' = [calls EXCEPT ![d.session].rejected = @ \cup {d.block}]
  /\ port' = Append(port, Command("PAUSE"))
  /\ sent' = Append(sent, Posted("PAUSE", d.trackId, d.session, d.block))
  /\ UNCHANGED <<manager, worklet, lastKnownPosition, endedCount, activated, asmVars, dlVars, storeVars>>

\* decodeAudioData() rejects: startPlaybackWithChunk rethrows, and
\* seamlesslyReplaceBuffer logs the error; neither posts anything
DecodeRejected(d) ==
  /\ d \in decodes
  /\ decodes' = decodes \ {d}
  /\ calls' = [calls EXCEPT ![d.session].rejected = @ \cup {d.block}]
  /\ UNCHANGED <<manager, sent, engineVars, asmVars, dlVars, storeVars>>

\* The whole file decoded by loadAudio()
WholeFile == [storageIndex |-> -1, totalSize |-> MgrFileSize]

\* downloadAudio() rejects: the download manager invokes its onError, which
\* invokes the manager's onError, and rethrows; the catch of playInstantly
\* reports FAILED and returns loadAndPlay(), whose loadAudio() returns the
\* buffer in audioBuffers if there is one, so that play() follows at once,
\* and fetches the whole file otherwise
DownloadRejected(session, layout) ==
  /\ session \in DOMAIN calls
  /\ calls[session].pc = "downloadAudio"
  /\ Len(port) + 2 <= MaxPort
  /\ LET trackId == calls[session].trackId
         failed == [calls EXCEPT ![session].errors = @ + 1,
                                 ![session].status = Append(@, "FAILED")]
     IN IF manager.audioBuffers[trackId] # {}
        THEN LET audioBuffer == CHOOSE b \in manager.audioBuffers[trackId] : TRUE
             IN /\ calls' = [failed EXCEPT ![session].pc = "done"]
                /\ manager' = [manager EXCEPT !.currentTrackId = {trackId}]
                /\ port' = port \o <<PortMessage(layout, "SET_BUFFER",
                                                 AudioFields(trackId, audioBuffer.buffer)),
                                     Command("PLAY")>>
                /\ sent' = sent \o <<Posted("SET_BUFFER", trackId, session, audioBuffer.block),
                                     Posted("PLAY", trackId, session, audioBuffer.block)>>
        ELSE /\ calls' = [failed EXCEPT ![session].pc = "loadAudio"]
             /\ UNCHANGED <<manager, port, sent>>
  /\ UNCHANGED <<decodes, worklet, lastKnownPosition, endedCount, activated, asmVars, dlVars, storeVars>>

\* loadAudio() of the fallback resolves: the buffer is cached and play()
\* makes the track current and posts SET_BUFFER and PLAY
FallbackLoaded(session, layout) ==
  /\ session \in DOMAIN calls
  /\ calls[session].pc = "loadAudio"
  /\ Len(port) + 2 <= MaxPort
  /\ LET trackId == calls[session].trackId
         buffer == decodeAudioData(WholeFile)
     IN /\ manager' = [manager EXCEPT
                         !.currentTrackId = {trackId},
                         !.audioBuffers[trackId] =
                            {Stored(buffer, session, WholeFile.storageIndex)}]
        /\ port' = port \o <<PortMessage(layout, "SET_BUFFER", AudioFields(trackId, buffer)),
                             Command("PLAY")>>
        /\ sent' = sent \o <<Posted("SET_BUFFER", trackId, session, WholeFile.storageIndex),
                             Posted("PLAY", trackId, session, WholeFile.storageIndex)>>
  /\ calls' = [calls EXCEPT ![session].pc = "done"]
  /\ UNCHANGED <<decodes, worklet, lastKnownPosition, endedCount, activated, asmVars, dlVars, storeVars>>

\* loadAudio() of the fallback fails: its catch invokes onError and
\* rethrows, and the promise of playInstantly() rejects
FallbackRejected(session) ==
  /\ session \in DOMAIN calls
  /\ calls[session].pc = "loadAudio"
  /\ calls' = [calls EXCEPT ![session].pc = "rejected", ![session].errors = @ + 1]
  /\ UNCHANGED <<manager, decodes, sent, engineVars, asmVars, dlVars, storeVars>>

\* A render tick, and the main thread's handling of the messages it posts
RenderTickReported ==
  /\ worklet.bufferSourcePosition < MaxCursor
  /\ LET r == process(worklet, OutputChannels)
     IN /\ worklet' = r.w
        /\ lastKnownPosition' = PositionAfter(lastKnownPosition, r.out)
        /\ endedCount' = Min(endedCount + EndedIn(r.out), 2)
        /\ activated' = ActivatedAfter(activated, worklet, r.w)
  /\ UNCHANGED <<port, asmVars, dlVars, storeVars, mgrVars>>

MgrNext(layout) ==
  \/ \E t \in Tracks : PlayInstantly(t)
  \/ \E session \in DOMAIN calls : DownloadResolved(session)
  \/ \E t \in Tracks : PlayLoaded(t, layout)
  \/ \E d \in decodes : StartDecoded(d, layout)
  \/ \E d \in decodes : ReplaceDecoded(d, layout)
  \/ \E d \in decodes : DecodeRejected(d)
  \/ \E session \in DOMAIN calls : DownloadRejected(session, layout)
  \/ \E session \in DOMAIN calls : FallbackLoaded(session, layout)
  \/ \E session \in DOMAIN calls : FallbackRejected(session)
  \/ HandleMessage
  \/ RenderTickReported

\* The manager posting as its source does
MgrNextFlat == MgrNext("flat")

\* The manager with its fields moved into the member the processor reads
MgrNextData == MgrNext("data")

\* ------------------------------------------------------------------------
\* Properties of the manager and the processor together
\* ------------------------------------------------------------------------

\* The messages the processor has taken from its port, oldest first
Received == SubSeq(sent, 1, Len(sent) - Len(port))

\* The processor takes a REPLACE_BUFFER from its port while it is rendering
\* and makes the buffer of the message its own
ReplacesWhileRendering ==
  /\ port # <<>>
  /\ port' = Tail(port)
  /\ Head(port).type = "REPLACE_BUFFER"
  /\ worklet.isPlaying
  /\ worklet.audioChannelData.has
  /\ ~onmessage(worklet, Head(port)).threw
  /\ worklet.currentTrackId = {Head(port).data.trackId}

C3_DeliveryOrder ==
  \A j \in DOMAIN Received :
    (Received[j].type = "REPLACE_BUFFER"
       /\ calls[Received[j].session].method = "playInstantly") =>
      /\ \E i \in 1..(j - 1) :
           /\ Received[i].session = Received[j].session
           /\ Received[i].type = "SET_BUFFER"
      /\ \A i \in 1..(j - 1) :
           (Received[i].session = Received[j].session
              /\ Received[i].type = "REPLACE_BUFFER") =>
             Received[i].block <= Received[j].block

\* C10: nothing decoded for a call is posted to the processor or stored in
\* audioBuffers once a later play or playInstantly call has been made.
C10_SupersededDropped ==
  /\ \A i \in DOMAIN sent : ~sent[i].superseded
  /\ \A t \in Tracks : \A b \in manager.audioBuffers[t] : ~b.superseded

\* storageIndex of the blocks after the first into which the download
\* assembles
LaterBlocks ==
  LET events == AssembleDownload(DownloadPlan)
  IN {events[i].chunk.storageIndex :
        i \in {j \in DOMAIN events : /\ events[j].cb = "onChunkAssembled"
                                      /\ events[j].chunk.storageIndex > 0}}

\* Call number session has run its instant path to COMPLETED, no decode of
\* it was rejected or is still in flight, and the port is empty
Settled(session) ==
  /\ calls[session].method = "playInstantly"
  /\ calls[session].pc = "done"
  /\ calls[session].status = <<"STARTED", "COMPLETED">>
  /\ calls[session].rejected = {}
  /\ \A d \in decodes : d.session # session
  /\ port = <<>>

\* C11: once a playInstantly call for a track that no earlier call has
\* played has settled, the processor has received every block after the
\* first of a file of several blocks as a REPLACE_BUFFER.
C11_HandOffCompletes ==
  \A session \in DOMAIN calls :
    (/\ Settled(session)
     /\ \A earlier \in 1..(session - 1) : calls[earlier].trackId # calls[session].trackId) =>
      \A block \in LaterBlocks :
        \E i \in DOMAIN Received :
          /\ Received[i].type = "REPLACE_BUFFER"
          /\ Received[i].session = session
          /\ Received[i].block = block

\* C12: for a download of more than one fragment, SET_BUFFER and PLAY of a
\* playInstantly call have been posted by the time its last fragment has
\* been fetched (at the latest when downloadAudio() has resolved).
C12_StreamingStart ==
  \A session \in DOMAIN calls :
    (/\ calls[session].method = "playInstantly"
     /\ Len(DownloadPlan) > 1
     /\ calls[session].pc = "done"
     /\ calls[session].status = <<"STARTED", "COMPLETED">>) =>
      /\ \E i \in DOMAIN sent : sent[i].type = "SET_BUFFER" /\ sent[i].session = session
      /\ \E i \in DOMAIN sent : sent[i].type = "PLAY" /\ sent[i].session = session

\* C13: when the decode of block 0 of a playInstantly call is rejected, the
\* call has not reported COMPLETED and has gone to the whole-file fallback
\* (it has reported FAILED and stands in, or has passed, loadAudio()).
C13_FirstBlockFallback ==
  \A session \in DOMAIN calls :
    0 \in calls[session].rejected =>
      /\ "COMPLETED" \notin Range(calls[session].status)
      /\ "FAILED" \in Range(calls[session].status)

\* C14: a playInstantly call whose instant path and whose whole-file
\* fallback have both failed has invoked onError exactly once.
C14_OneTerminalError ==
  \A session \in DOMAIN calls :
    calls[session].pc = "rejected" => calls[session].errors = 1

\* C15: a step in which the decode of a block after the first is rejected
\* posts nothing to the processor and leaves the processor, the port, the
\* current track and the cached buffers as they were.
C15_FailedUpgradeHarmless ==
  [][\A session \in DOMAIN calls :
       \A block \in calls'[session].rejected \ calls[session].rejected :
         block > 0 => UNCHANGED <<worklet, port, sent, manager, lastKnownPosition>>]_vars

\* The decode of a later block was rejected after playback of block 0 had
\* been started, and the processor has taken every message posted to it
C15_Witness ==
  \E session \in DOMAIN calls :
    /\ \E block \in calls[session].rejected : block > 0
    /\ \E i \in DOMAIN Received : Received[i].type = "PLAY"
    /\ worklet.isPlaying
    /\ port = <<>>

\* Bytes of the file from its start through the block with storageIndex
\* block
BytesThrough(block) ==
  LET events == AssembleDownload(DownloadPlan)
      upTo   == SelectSeq(events, LAMBDA ev : /\ ev.cb = "onChunkAssembled"
                                              /\ ev.chunk.storageIndex <= block)
  IN SumSeq([i \in DOMAIN upTo |-> upTo[i].chunk.totalSize])

\* C35: every buffer posted to the processor as a REPLACE_BUFFER holds the
\* audio of the file from its start through the newly assembled block.
C35_CumulativeReplacement ==
  \A i \in DOMAIN port :
    port[i].type = "REPLACE_BUFFER" =>
      LET block == sent[Len(sent) - Len(port) + i].block
      IN port[i].fields.totalSamples
           = decodeAudioData([totalSize |-> BytesThrough(block)]).length

\* The processor takes from its port the PLAY that play() or
\* startPlaybackWithChunk() posted right after a SET_BUFFER
PlayAfterSetBufferHandled ==
  /\ port # <<>>
  /\ port' = Tail(port)
  /\ Head(port).type = "PLAY"
  /\ Received # <<>>
  /\ Received[Len(Received)].type = "SET_BUFFER"

\* C36: the processor reads every command from the place in the message
\* where the manager put its fields: once it has handled the SET_BUFFER and
\* the PLAY posted for a track it holds that track's buffer and is playing.
C36_ProtocolConformance ==
  [][PlayAfterSetBufferHandled =>
       LET trackId == Received[Len(Received)].trackId
       IN /\ worklet'.audioChannelData.has
          /\ worklet'.audioChannelData.owner = trackId
          /\ worklet'.currentTrackId = {trackId}
          /\ worklet'.isPlaying]_vars

\* C37: what has been downloaded for a playInstantly call is decoded and
\* posted to the processor only under the trackId of that call.
C37_CallIsolation ==
  /\ \A d \in decodes : d.trackId = calls[d.session].trackId
  /\ \A i \in DOMAIN sent : sent[i].trackId = calls[sent[i].session].trackId

\* ========================================================================
\* Part 4: DownloadManager (the fetch plan)
\* ========================================================================

\* Sizes are counted in units of 64 KB and speeds in units of 64 KB/s, so the
\* thresholds of the source are whole numbers.
MinAdaptiveChunk == 1

MaxAdaptiveChunk(isIOSSafari) == IF isIOSSafari THEN 8 ELSE 16

SlowConnection == 16

FastConnection == 80

SmallFile == 16

LargeFile == 160

FullFileDefault == 160

MAX_SPEED_SAMPLES == 5

\* Bounds of the fetch-plan check
MaxTotalSize == 12

MaxMeasuredChunks == 2

\* Chunk sizes a caller configures, estimated file sizes it passes (0 when it
\* passes none) and the speeds at which a chunk may arrive. Every standard
\* size that reaches calculateDownloadChunks is even, so that its half is a
\* whole number of units.
InitialSizes == {2, 4}

StandardSizes == {2, 8}

EstimatedSizes == {0, 12, 192}

ChunkSpeeds == {8, 96}

\* A speed is the exact quotient sum / count
NoSpeed == [sum |-> 0, count |-> 1]

SpeedAbove(speed, limit) == speed.sum > limit * speed.count

SpeedBelow(speed, limit) == speed.sum < limit * speed.count

\* The fields of a DownloadManager after its constructor; planned holds the
\* locals of the latest downloadAudio() (totalSize, strategy, chunks) and the
\* connection speed it read.
NewDownloadManager(strategyOption, ios) ==
  [isIOSSafari     |-> ios,
   \* { ...defaults, ...options.strategy }
   strategy        |-> strategyOption
                         @@ [initialChunkSize       |-> IF ios THEN 2 ELSE 4,
                             standardChunkSize      |-> IF ios THEN 4 ELSE 8,
                             maxConcurrentDownloads |-> IF ios THEN 2 ELSE 4,
                             priorityFirstChunk     |-> TRUE,
                             adaptiveChunkSizing    |-> TRUE],
   speedSamples    |-> <<>>,
   connectionSpeed |-> NoSpeed,
   planned         |-> {}]

getOptimalStrategy(dl, supportsRanges, estimatedFileSize) ==
  IF ~supportsRanges
  THEN [dl.strategy EXCEPT
          !.initialChunkSize       = IF estimatedFileSize # 0 THEN estimatedFileSize
                                     ELSE FullFileDefault,
          !.standardChunkSize      = IF estimatedFileSize # 0 THEN estimatedFileSize
                                     ELSE FullFileDefault,
          !.maxConcurrentDownloads = 1,
          !.priorityFirstChunk     = FALSE,
          !.adaptiveChunkSizing    = FALSE]
  ELSE IF estimatedFileSize # 0 /\ estimatedFileSize < SmallFile
  THEN [dl.strategy EXCEPT
          !.initialChunkSize       = Min(dl.strategy.initialChunkSize, estimatedFileSize \div 3),
          !.standardChunkSize      = Min(dl.strategy.standardChunkSize, estimatedFileSize \div 2),
          !.maxConcurrentDownloads = 2]
  ELSE IF estimatedFileSize # 0 /\ estimatedFileSize > LargeFile
  THEN [dl.strategy EXCEPT
          !.standardChunkSize      = IF dl.isIOSSafari THEN 8 ELSE 16,
          !.maxConcurrentDownloads = IF dl.isIOSSafari THEN 3 ELSE 6]
  ELSE dl.strategy

\* Size of the chunks after the first, before it is cut to the bytes left
SubsequentChunkSize(dl, strategy) ==
  IF strategy.adaptiveChunkSizing /\ SpeedAbove(dl.connectionSpeed, 0)
  THEN IF SpeedAbove(dl.connectionSpeed, FastConnection)
       THEN Min(strategy.standardChunkSize * 2, MaxAdaptiveChunk(dl.isIOSSafari))
       ELSE IF SpeedBelow(dl.connectionSpeed, SlowConnection)
       THEN Max(strategy.standardChunkSize \div 2, MinAdaptiveChunk)
       ELSE strategy.standardChunkSize
  ELSE strategy.standardChunkSize

\* while (offset < totalSize) { ... }
RECURSIVE SubsequentChunks(_, _, _, _, _)
SubsequentChunks(dl, strategy, totalSize, offset, chunkIndex) ==
  IF offset < totalSize
  THEN LET chunkSize == Min(SubsequentChunkSize(dl, strategy), totalSize - offset)
       IN <<[index |-> chunkIndex, start |-> offset, end |-> offset + chunkSize - 1]>>
            \o SubsequentChunks(dl, strategy, totalSize, offset + chunkSize, chunkIndex + 1)
  ELSE <<>>

\* Variant: the first chunk is sized like the others.
calculateDownloadChunks_standardFirst(dl, totalSize, strategy) ==
  IF 0 < totalSize
  THEN LET chunkSize == Min(strategy.standardChunkSize, totalSize)
       IN <<[index |-> 0, start |-> 0, end |-> chunkSize - 1]>>
            \o SubsequentChunks(dl, strategy, totalSize, chunkSize, 1)
  ELSE <<>>

calculateDownloadChunks(dl, totalSize, strategy) ==
  IF 0 < totalSize
  THEN LET chunkSize == Min(strategy.initialChunkSize, totalSize)
       IN <<[index |-> 0, start |-> 0, end |-> chunkSize - 1]>>
            \o SubsequentChunks(dl, strategy, totalSize, chunkSize, 1)
  ELSE <<>>

updateConnectionSpeed(dl, newSpeed) ==
  LET pushed  == Append(dl.speedSamples, newSpeed)
      samples == IF Len(pushed) > MAX_SPEED_SAMPLES THEN Tail(pushed) ELSE pushed
  IN [dl EXCEPT !.speedSamples    = samples,
                !.connectionSpeed = [sum |-> SumSeq(samples), count |-> Len(samples)]]

\* ------------------------------------------------------------------------
\* One DownloadManager used for one download after another (SpecPlan)
\* ------------------------------------------------------------------------

StrategyOptions ==
  [initialChunkSize : InitialSizes, standardChunkSize : StandardSizes,
   adaptiveChunkSizing : BOOLEAN]

\* No downloadAudio() has been called: activeDownloads and completedChunks
\* are empty; requested lists the indices whose fetch has been issued.
NoDownload ==
  [pc                 |-> "idle",
   priorityFirstChunk |-> FALSE,
   supportsRanges     |-> TRUE,
   honoursRanges      |-> TRUE,
   totalSize          |-> 0,
   strategy           |-> {},
   chunks             |-> <<>>,
   queue              |-> <<>>,
   batch              |-> {},
   activeDownloads    |-> {},
   completedChunks    |-> EmptyMap,
   requested          |-> <<>>,
   failed             |-> {},
   errors             |-> 0]

DlInit ==
  /\ \E strategyOption \in StrategyOptions, ios \in BOOLEAN :
       downloader = NewDownloadManager(strategyOption, ios)
  /\ download = NoDownload

\* downloadAudio() up to the computation of the plan: the state is reset, the
\* strategy chosen, the size read from the HEAD response and the plan made.
DownloadAudio(totalSize, supportsRanges, estimatedFileSize) ==
  /\ LET dl       == [downloader EXCEPT !.speedSamples = <<>>]
         strategy == getOptimalStrategy(dl, supportsRanges, estimatedFileSize)
     IN downloader' =
          [dl EXCEPT !.planned = {[totalSize       |-> totalSize,
                                   strategy        |-> strategy,
                                   connectionSpeed |-> dl.connectionSpeed,
                                   chunks          |-> calculateDownloadChunks(dl, totalSize, strategy)]}]
  /\ UNCHANGED <<download, asmVars, engineVars, mgrVars, storeVars>>

\* downloadChunk(): a chunk of the plan has arrived at some speed
ChunkDownloaded(chunkSpeed) ==
  /\ \E p \in downloader.planned :
       Len(downloader.speedSamples) < Min(Len(p.chunks), MaxMeasuredChunks)
  /\ downloader' = updateConnectionSpeed(downloader, chunkSpeed)
  /\ UNCHANGED <<download, asmVars, engineVars, mgrVars, storeVars>>

PlanNext ==
  \/ \E totalSize \in 1..MaxTotalSize, supportsRanges \in BOOLEAN,
        estimatedFileSize \in EstimatedSizes :
       DownloadAudio(totalSize, supportsRanges, estimatedFileSize)
  \/ \E chunkSpeed \in ChunkSpeeds : ChunkDownloaded(chunkSpeed)

\* ------------------------------------------------------------------------
\* One downloadAudio() call and its fetches (SpecFetch)
\* ------------------------------------------------------------------------

\* Bound of the fetch check: file sizes, in units of 64 KB
MaxFetchSize == 8

\* Estimates a caller passes (0 when none) and the speed of a fetch
FetchEstimates == {0, 6}

FetchSpeeds == {48}

\* The bytes a successful response carries, as the range of the file they
\* are: the requested range, or the whole file from a server that ignores
\* the Range header.
ResponseData(d, chunk) ==
  IF d.honoursRanges
  THEN [from |-> chunk.start, to |-> Min(chunk.end, d.totalSize - 1)]
  ELSE [from |-> 0, to |-> d.totalSize - 1]

\* chunks.map(chunk => this.downloadChunk(url, chunk)) up to the fetches
IssueFetches(d, batch) ==
  [d EXCEPT !.batch           = {batch[k].index : k \in DOMAIN batch},
            !.activeDownloads = @ \cup {batch[k].index : k \in DOMAIN batch},
            !.requested       = @ \o [k \in DOMAIN batch |-> batch[k].index]]

\* downloadParallel() from the start of a batch to its await
downloadParallel(d, chunks, maxConcurrent) ==
  IF chunks = <<>>
  THEN [d EXCEPT !.pc = "resolved", !.queue = <<>>, !.batch = {}]
  ELSE LET n == Min(maxConcurrent, Len(chunks))
       IN IssueFetches([d EXCEPT !.pc    = "parallel",
                                 !.queue = SubSeq(chunks, n + 1, Len(chunks))],
                       SubSeq(chunks, 1, n))

\* Variant: the first chunk is fetched together with the first batch.
downloadPriorityFirst_together(d, chunks, maxConcurrent) ==
  downloadParallel(d, chunks, maxConcurrent)

\* downloadPriorityFirst() up to the await of the first chunk
downloadPriorityFirst(d, chunks, maxConcurrent) ==
  IF chunks = <<>>
  THEN [d EXCEPT !.pc = "resolved"]
  ELSE IssueFetches([d EXCEPT !.pc = "priority", !.queue = Tail(chunks)], <<Head(chunks)>>)

\* The awaited fetches of the batch have all completed
batchCompleted(d, maxConcurrent) ==
  IF d.pc \in {"priority", "parallel"} /\ d.batch \subseteq DOMAIN d.completedChunks
  THEN downloadParallel(d, d.queue, maxConcurrent)
  ELSE d

\* Variant: onError is invoked for every fetch that fails.
chunkFailed_everyError(d, index) ==
  [d EXCEPT !.activeDownloads = @ \ {index},
            !.failed          = @ \cup {index},
            !.pc              = "rejected",
            !.errors          = @ + 1]

\* downloadChunk() throws; the first rejection rejects Promise.all and so
\* downloadAudio(), whose catch invokes onError
chunkFailed(d, index) ==
  IF d.pc = "rejected"
  THEN [d EXCEPT !.activeDownloads = @ \ {index}, !.failed = @ \cup {index}]
  ELSE [d EXCEPT !.activeDownloads = @ \ {index},
                 !.failed          = @ \cup {index},
                 !.pc              = "rejected",
                 !.errors          = @ + 1]

chunkCompleted(d, index) ==
  [d EXCEPT !.activeDownloads = @ \ {index},
            !.completedChunks =
               MapSet(@, index, [index |-> index,
                                 start |-> d.chunks[index + 1].start,
                                 end   |-> d.chunks[index + 1].end,
                                 data  |-> ResponseData(d, d.chunks[index + 1])])]

\* downloadAudio() up to its first fetches: the state is reset, the range
\* probe and the HEAD request are answered, the plan is made and the first
\* chunk or the first batch is requested. contentLength is 0 when the
\* response carries no usable Content-Length.
StartDownload(contentLength, supportsRanges, honoursRanges, estimatedFileSize, priorityFirstChunk) ==
  /\ download.pc = "idle"
  /\ supportsRanges => honoursRanges
  /\ LET dl       == [downloader EXCEPT !.speedSamples = <<>>]
         strategy == getOptimalStrategy(dl, supportsRanges, estimatedFileSize)
         chunks   == calculateDownloadChunks(dl, contentLength, strategy)
         d        == [NoDownload EXCEPT !.priorityFirstChunk = priorityFirstChunk,
                                        !.supportsRanges     = supportsRanges,
                                        !.honoursRanges      = honoursRanges,
                                        !.totalSize          = contentLength,
                                        !.strategy           = {strategy},
                                        !.chunks             = chunks]
     IN /\ downloader' = dl
        /\ download' =
             IF contentLength = 0
             THEN [d EXCEPT !.pc = "rejected", !.errors = 1]
             ELSE IF priorityFirstChunk /\ Len(chunks) > 0
             THEN downloadPriorityFirst(d, chunks, dl.strategy.maxConcurrentDownloads)
             ELSE downloadParallel(d, chunks, dl.strategy.maxConcurrentDownloads)
  /\ UNCHANGED <<asmVars, engineVars, mgrVars, storeVars>>

\* A fetch is answered with 200 or 206: downloadChunk() stores the chunk, and
\* whatever awaited it goes on
FetchSucceeded(index, chunkSpeed) ==
  /\ index \in download.activeDownloads
  /\ downloader' = updateConnectionSpeed(downloader, chunkSpeed)
  /\ download' = batchCompleted(chunkCompleted(download, index),
                                downloader.strategy.maxConcurrentDownloads)
  /\ UNCHANGED <<asmVars, engineVars, mgrVars, storeVars>>

\* A fetch is answered with another status, or fails
FetchFailed(index) ==
  /\ index \in download.activeDownloads
  /\ download' = chunkFailed(download, index)
  /\ UNCHANGED <<downloader, asmVars, engineVars, mgrVars, storeVars>>

FetchNext ==
  \/ \E contentLength \in 0..MaxFetchSize, supportsRanges, honoursRanges, priorityFirstChunk \in BOOLEAN,
        estimatedFileSize \in FetchEstimates :
       StartDownload(contentLength, supportsRanges, honoursRanges, estimatedFileSize,
                     priorityFirstChunk)
  \/ \E index \in 0..MaxFetchSize, chunkSpeed \in FetchSpeeds : FetchSucceeded(index, chunkSpeed)
  \/ \E index \in 0..MaxFetchSize : FetchFailed(index)

\* ------------------------------------------------------------------------
\* Properties of the fetches
\* ------------------------------------------------------------------------

\* C21: in a download with priorityFirstChunk, a fetch for a fragment with
\* index >= 1 has been issued only if fragment 0 has completed, and once
\* fragment 0 has failed no other fragment has been requested.
C21_PriorityFirst ==
  download.priorityFirstChunk =>
    /\ (\E k \in DOMAIN download.requested : download.requested[k] >= 1)
         => 0 \in DOMAIN download.completedChunks
    /\ 0 \in download.failed => \A k \in DOMAIN download.requested : download.requested[k] = 0

\* A priority download whose first fragment has completed and whose first
\* batch of later fragments is in flight
C21_Witness ==
  /\ download.priorityFirstChunk
  /\ download.requested # <<>>
  /\ Head(download.requested) = 0
  /\ 0 \in DOMAIN download.completedChunks
  /\ Cardinality(download.activeDownloads) >= 2
  /\ 0 \notin download.activeDownloads

\* C22: the number of fetches in flight never exceeds the
\* maxConcurrentDownloads of the strategy getOptimalStrategy selected for
\* the download, and a batch is issued only when no fetch is in flight.
C22_BoundedConcurrency ==
  \A strategy \in download.strategy :
    Cardinality(download.activeDownloads) <= strategy.maxConcurrentDownloads

\* C23: the step in which a fetch fails rejects downloadAudio() and invokes
\* onError once; it leaves the completed chunks in place, and from then on
\* onError is not invoked again, no fetch is issued and no completed chunk is
\* dropped.
C23_FetchFailure ==
  [][/\ (download.pc # "rejected" /\ download'.failed # download.failed)
          => /\ download'.pc = "rejected"
             /\ download'.errors = download.errors + 1
             /\ download'.completedChunks = download.completedChunks
             /\ download'.requested = download.requested
     /\ download.pc = "rejected"
          => /\ download'.pc = "rejected"
             /\ download'.errors = download.errors
             /\ download'.requested = download.requested
             /\ \A i \in DOMAIN download.completedChunks :
                  /\ i \in DOMAIN download'.completedChunks
                  /\ download'.completedChunks[i] = download.completedChunks[i]]_vars

\* A download rejected by a failed fetch: onError invoked once, a chunk
\* completed before, a second fetch of the batch failed after, and chunks of
\* later batches never requested
C23_Witness ==
  /\ download.pc = "rejected"
  /\ download.errors = 1
  /\ Cardinality(download.failed) >= 2
  /\ DOMAIN download.completedChunks # {}
  /\ download.queue # <<>>
  /\ Len(download.requested) < Len(download.chunks)

\* Number of bytes in the completed chunks, as downloadAudio() returns them
DeliveredBytes ==
  LET RECURSIVE Over(_)
      Over(is) ==
        IF is = {} THEN 0
        ELSE LET i == CHOOSE x \in is : TRUE
                 c == download.completedChunks[i]
             IN (c.data.to - c.data.from + 1) + Over(is \ {i})
  IN Over(DOMAIN download.completedChunks)

\* C24: when the range probe reports no range support, the download is one
\* request producing one fragment, whatever the file size, and the bytes of
\* the fragments returned are the bytes of the file, none of them twice.
C24_WholeFileFallback ==
  (~download.supportsRanges /\ download.pc \in {"priority", "parallel", "resolved"})
    => /\ Len(download.chunks) = 1
       /\ Len(download.requested) <= 1
       /\ download.pc = "resolved" => DeliveredBytes = download.totalSize

\* ------------------------------------------------------------------------
\* Properties of the fetch plan
\* ------------------------------------------------------------------------

ChunkBytes(c) == c.end - c.start + 1

\* The plan is indexed 0..n-1 in order and its inclusive ranges cover
\* 0..totalSize-1 without gap or overlap
IsPartition(p) ==
  /\ Len(p.chunks) >= 1
  /\ \A i \in DOMAIN p.chunks : p.chunks[i].index = i - 1 /\ ChunkBytes(p.chunks[i]) >= 1
  /\ p.chunks[1].start = 0
  /\ p.chunks[Len(p.chunks)].end = p.totalSize - 1
  /\ \A i \in 1..(Len(p.chunks) - 1) : p.chunks[i + 1].start = p.chunks[i].end + 1

\* Descriptors after the first and before the last
MiddleChunks(p) == {i \in DOMAIN p.chunks : 1 < i /\ i < Len(p.chunks)}

AdaptsTo(p) ==
  IF ~p.strategy.adaptiveChunkSizing \/ ~SpeedAbove(p.connectionSpeed, 0)
  THEN "standard"
  ELSE IF SpeedAbove(p.connectionSpeed, FastConnection) THEN "fast"
  ELSE IF SpeedBelow(p.connectionSpeed, SlowConnection) THEN "slow"
  ELSE "standard"

\* C20: the plan of every download is a partition of 0..totalSize-1 indexed
\* in order, its first descriptor has size min(initialChunkSize, totalSize),
\* and every later descriptor but the last has the standard chunk size.
C20_PlanStandardSizes ==
  \A p \in downloader.planned :
    /\ IsPartition(p)
    /\ ChunkBytes(p.chunks[1]) = Min(p.strategy.initialChunkSize, p.totalSize)
    /\ \A i \in MiddleChunks(p) : ChunkBytes(p.chunks[i]) = p.strategy.standardChunkSize

\* C20 (amended): the plan is a partition of 0..totalSize-1 indexed in order,
\* its first descriptor has size min(initialChunkSize, totalSize), and every
\* later descriptor but the last has one size: the standard chunk size, or,
\* when adaptive sizing is on and the instance has measured a connection
\* speed in an earlier download, twice the standard size capped at 1 MB
\* (512 KB on iOS Safari) above 5 MB/s and half of it, at least 64 KB, below
\* 1 MB/s.
C20_PlanPartition ==
  \A p \in downloader.planned :
    /\ IsPartition(p)
    /\ ChunkBytes(p.chunks[1]) = Min(p.strategy.initialChunkSize, p.totalSize)
    /\ \A i \in MiddleChunks(p) :
         ChunkBytes(p.chunks[i]) =
           CASE AdaptsTo(p) = "standard" -> p.strategy.standardChunkSize
             [] AdaptsTo(p) = "fast" ->
                  Min(2 * p.strategy.standardChunkSize, MaxAdaptiveChunk(downloader.isIOSSafari))
             [] AdaptsTo(p) = "slow" ->
                  Max(p.strategy.standardChunkSize \div 2, MinAdaptiveChunk)

\* A plan of at least four descriptors made on an instance that had measured
\* a fast connection: its later descriptors are larger than the standard size
C20_Witness ==
  \E p \in downloader.planned :
    /\ AdaptsTo(p) = "fast"
    /\ Len(p.chunks) >= 4
    /\ \A i \in MiddleChunks(p) : ChunkBytes(p.chunks[i]) > p.strategy.standardChunkSize
    /\ ChunkBytes(p.chunks[1]) = p.strategy.initialChunkSize
    /\ ChunkBytes(p.chunks[Len(p.chunks)]) < ChunkBytes(p.chunks[2])

\* ========================================================================
\* Part 5: AudioChunkStore (the persistent chunk store)
\* ========================================================================

\* Times are counted in units of 5 days and sizes in units of 512 MB.
MaxAgeUnits == 2

MaxStorageUnits == 2

\* Date.now() during the run
Now == 4

\* 16-bit code units that matter to a UTF-16 decoder, and two ordinary ones
HighSurrogate == 55296

LowSurrogate == 56320

ByteOrderMark == 65279

ReplacementChar == 65533

IsHighSurrogate(u) == 55296 <= u /\ u <= 56319

IsLowSurrogate(u) == 56320 <= u /\ u <= 57343

\* new TextDecoder('utf-16').decode(u16): a leading byte order mark is
\* dropped and every unpaired surrogate becomes U+FFFD
RECURSIVE DecodeUnits(_)
DecodeUnits(u16) ==
  IF u16 = <<>> THEN <<>>
  ELSE IF IsHighSurrogate(u16[1]) /\ Len(u16) >= 2 /\ IsLowSurrogate(u16[2])
  THEN <<u16[1], u16[2]>> \o DecodeUnits(SubSeq(u16, 3, Len(u16)))
  ELSE IF IsHighSurrogate(u16[1]) \/ IsLowSurrogate(u16[1])
  THEN <<ReplacementChar>> \o DecodeUnits(Tail(u16))
  ELSE <<u16[1]>> \o DecodeUnits(Tail(u16))

TextDecode(u16) ==
  IF u16 # <<>> /\ Head(u16) = ByteOrderMark THEN DecodeUnits(Tail(u16)) ELSE DecodeUnits(u16)

\* A Float32Array is held as the 16-bit halves of its samples, low half
\* first, as new Uint16Array(f32.buffer, ...) sees it.
float32ArrayToString(f32, hasTextDecoder) ==
  IF hasTextDecoder THEN TextDecode(f32) ELSE f32

\* new Float32Array(u16.buffer) throws a RangeError when the byte length is
\* not a multiple of 4
stringToFloat32Array(str) ==
  IF Len(str) % 2 = 0 THEN [threw |-> FALSE, f32 |-> str] ELSE [threw |-> TRUE, f32 |-> <<>>]

\* Channel payloads used in the check: one sample each, as its low and its
\* high half
Payloads ==
  {<<0, 16256>>, <<HighSurrogate, 16256>>, <<ByteOrderMark, 16256>>,
   <<HighSurrogate, LowSurrogate>>}

StoreTracks == {"A", "B", "C"}

\* AudioMetadata (the fields the store computes with)
Metadata(trackId, totalChunks, lastAccessed, fileSize) ==
  [trackId |-> trackId, totalChunks |-> totalChunks, lastAccessed |-> lastAccessed,
   fileSize |-> fileSize]

\* AudioChunk with one channel; its id is `${trackId}-${chunkIndex}`
AudioChunk(trackId, chunkIndex, f32) ==
  [id |-> <<trackId, chunkIndex>>, trackId |-> trackId, chunkIndex |-> chunkIndex,
   length |-> Len(f32) \div 2, channels |-> <<f32>>]

\* The fields of an AudioChunkStore after its constructor, with the object
\* stores cache_meta and cache_data of the database it will open
NewChunkStore(ios, hasTextDecoder, meta, data) ==
  [isSafariIOS    |-> ios,
   hasTextDecoder |-> hasTextDecoder,
   initialized    |-> FALSE,
   cache_meta     |-> meta,
   cache_data     |-> data]

\* store.put(storedChunk) of saveChunk
saveChunk(st, chunk) ==
  [st EXCEPT !.cache_data =
     MapSet(@, chunk.id,
            [chunk EXCEPT !.channels =
               [c \in DOMAIN chunk.channels |->
                  float32ArrayToString(chunk.channels[c], st.hasTextDecoder)]])]

\* What getChunk resolves to: null, the chunk, or the error thrown in the
\* success handler
getChunk(st, trackId, chunkIndex) ==
  IF ~MapHas(st.cache_data, <<trackId, chunkIndex>>)
  THEN [found |-> FALSE, threw |-> FALSE, chunk |-> {}]
  ELSE LET stored  == st.cache_data[<<trackId, chunkIndex>>]
           decoded == [c \in DOMAIN stored.channels |-> stringToFloat32Array(stored.channels[c])]
       IN IF \E c \in DOMAIN decoded : decoded[c].threw
          THEN [found |-> TRUE, threw |-> TRUE, chunk |-> {}]
          ELSE [found |-> TRUE, threw |-> FALSE,
                chunk |-> {[stored EXCEPT !.channels = [c \in DOMAIN decoded |-> decoded[c].f32]]}]

saveMetadata(st, metadata) ==
  [st EXCEPT !.cache_meta = MapSet(@, metadata.trackId, metadata)]

\* store.delete(trackId) on cache_meta
deleteMetadata(st, trackId) ==
  [st EXCEPT !.cache_meta = MapDelete(@, trackId)]

\* the cursor over the trackId index of cache_data, deleting every key
deleteChunks(st, trackId) ==
  [st EXCEPT !.cache_data = [id \in {x \in DOMAIN @ : @[x].trackId # trackId} |-> @[id]]]

\* getAll() on cache_meta: the records in key order
TrackOrder == <<"A", "B", "C">>

getAllMetadata(st) ==
  LET present == SelectSeq(TrackOrder, LAMBDA t : MapHas(st.cache_meta, t))
  IN [k \in DOMAIN present |-> st.cache_meta[present[k]]]

\* Array.prototype.sort((a, b) => a.lastAccessed - b.lastAccessed), stable
RECURSIVE SortByLastAccessed(_)
SortByLastAccessed(ms) ==
  IF ms = <<>> THEN <<>>
  ELSE LET sorted == SortByLastAccessed(SubSeq(ms, 1, Len(ms) - 1))
           m      == ms[Len(ms)]
           before == SelectSeq(sorted, LAMBDA x : x.lastAccessed <= m.lastAccessed)
           after  == SelectSeq(sorted, LAMBDA x : x.lastAccessed > m.lastAccessed)
       IN before \o <<m>> \o after

RECURSIVE SumFileSize(_)
SumFileSize(ms) == IF ms = <<>> THEN 0 ELSE Head(ms).fileSize + SumFileSize(Tail(ms))

\* for (const metadata of sortedByAge) { if (totalSize <= max) break; ... }
RECURSIVE EvictOldestFirst(_, _)
EvictOldestFirst(sortedByAge, totalSize) ==
  IF sortedByAge = <<>> \/ totalSize <= MaxStorageUnits THEN <<>>
  ELSE <<Head(sortedByAge).trackId>>
         \o EvictOldestFirst(Tail(sortedByAge), totalSize - Head(sortedByAge).fileSize)

\* Variant: a track is old as soon as its age reaches the max age.
tracksToRemove_atMaxAge(allMetadata, now) ==
  LET old       == SelectSeq(allMetadata, LAMBDA m : now - m.lastAccessed >= MaxAgeUnits)
      totalSize == SumFileSize(allMetadata) - SumFileSize(old)
      rest      == SelectSeq(allMetadata, LAMBDA m : ~(now - m.lastAccessed >= MaxAgeUnits))
  IN [k \in DOMAIN old |-> old[k].trackId]
       \o (IF totalSize > MaxStorageUnits
           THEN EvictOldestFirst(SortByLastAccessed(rest), totalSize)
           ELSE <<>>)

\* The tracks cleanup() selects, in the order in which it removes them
tracksToRemove(allMetadata, now) ==
  LET old       == SelectSeq(allMetadata, LAMBDA m : now - m.lastAccessed > MaxAgeUnits)
      totalSize == SumFileSize(allMetadata) - SumFileSize(old)
      rest      == SelectSeq(allMetadata, LAMBDA m : ~(now - m.lastAccessed > MaxAgeUnits))
  IN [k \in DOMAIN old |-> old[k].trackId]
       \o (IF totalSize > MaxStorageUnits
           THEN EvictOldestFirst(SortByLastAccessed(rest), totalSize)
           ELSE <<>>)

\* ------------------------------------------------------------------------
\* Streaming storage with Range requests
\* ------------------------------------------------------------------------

\* options.initialChunkSize and options.subsequentChunkSize of
\* storeAudioStreaming, in the unit in which the file sizes are counted
StreamInitialChunkSize == 1

StreamSubsequentChunkSize == 2

\* Largest content-length of a file stored by a streaming call
MaxStreamFileSize == 3

\* const totalChunks = Math.ceil(fileSize / subsequentChunkSize)
StreamTotalChunks(fileSize) ==
  (fileSize + StreamSubsequentChunkSize - 1) \div StreamSubsequentChunkSize

\* The byte ranges loadRemainingChunksInBackground fetches, from
\* currentOffset on
RECURSIVE RangesFrom(_, _)
RangesFrom(currentOffset, fileSize) ==
  IF currentOffset < fileSize
  THEN LET endOffset == Min(currentOffset + StreamSubsequentChunkSize - 1, fileSize - 1)
       IN <<<<currentOffset, endOffset>>>> \o RangesFrom(endOffset + 1, fileSize)
  ELSE <<>>

BackgroundRanges(fileSize) == RangesFrom(StreamInitialChunkSize, fileSize)

\* ------------------------------------------------------------------------
\* Calls on the store
\* ------------------------------------------------------------------------

\* const maxRetries = this.isSafariIOS() ? 3 : 1
MaxOpenRetries(ios) == IF ios THEN 3 ELSE 1

\* The database requests that are passed to withTimeout()
WrappedRequests ==
  {"getMetadata", "saveMetadata", "saveChunk", "getChunk", "getChunk.threw",
   "touch.getMetadata", "touch.saveMetadata", "saveMetadata.final"}

\* A call on the store: pc names the database request it is waiting for;
\* before is the database as it was when the call began to remove tracks;
\* alone says that no other call has been running at the same time;
\* fileSize is the content-length of the file a streaming call stores and
\* loading the byte ranges its background loader has still to fetch.
NewOp(kind, trackId, chunks) ==
  [kind       |-> kind,
   trackId    |-> trackId,
   pc         |-> "open",
   retryCount |-> 0,
   todo       |-> <<>>,
   chunks     |-> chunks,
   meta       |-> {},
   outcome    |-> "pending",
   result     |-> {},
   waited     |-> FALSE,
   alone      |-> TRUE,
   before     |-> {},
   fileSize   |-> 0,
   loading    |-> <<>>]

NoOp == [NewOp("none", "", <<>>) EXCEPT !.pc = "none", !.outcome = "none"]

Pending(o) == o.outcome = "pending"

Snapshot(st) == {[cache_meta |-> st.cache_meta, cache_data |-> st.cache_data]}

\* A call that has ended: what it was, how it ended and what it returned
Ended(o, outcome) ==
  [o EXCEPT !.pc = "done", !.outcome = outcome, !.todo = <<>>, !.chunks = <<>>,
            !.meta = {}, !.waited = FALSE]

Resolved(o) == Ended(o, "resolved")

\* The call from the point where the store is initialized to its first
\* database request
Begin(st, o) ==
  CASE o.kind = "initialize" -> Ended(o, "resolved")
    [] o.kind = "cleanup" -> [o EXCEPT !.pc = "getAllMetadata"]
    [] o.kind = "removeTrack" ->
         [o EXCEPT !.pc = "deleteMetadata", !.todo = <<o.trackId>>, !.before = Snapshot(st)]
    [] o.kind = "storeAudio" -> [o EXCEPT !.pc = "getMetadata"]
    [] o.kind = "storeAudioStreaming" -> [o EXCEPT !.pc = "getMetadata"]
    [] o.kind = "storeAssemblyChunks" ->
         IF o.chunks = <<>>
         THEN Ended(o, "rejected")
         ELSE [o EXCEPT !.pc = "saveMetadata",
                        !.meta = {Metadata(o.trackId, Len(o.chunks), Now, Len(o.chunks))}]
    [] o.kind = "getFirstChunkBuffer" -> [o EXCEPT !.pc = "getChunk"]
    [] o.kind = "getAvailableChunks" -> [o EXCEPT !.pc = "getAvailableChunks"]

\* The request the call is waiting for succeeds: its effect on the database
\* and the call up to its next request
Complete(st, o) ==
  CASE o.pc = "getAllMetadata" ->
         LET todo == tracksToRemove(getAllMetadata(st), Now)
         IN [store |-> st,
             op    |-> IF todo = <<>>
                       THEN Resolved([o EXCEPT !.before = Snapshot(st)])
                       ELSE [o EXCEPT !.pc = "deleteMetadata", !.todo = todo,
                                      !.before = Snapshot(st)]]
    [] o.pc = "deleteMetadata" ->
         [store |-> deleteMetadata(st, Head(o.todo)), op |-> [o EXCEPT !.pc = "deleteChunks"]]
    [] o.pc = "deleteChunks" ->
         [store |-> deleteChunks(st, Head(o.todo)),
          op    |-> IF Tail(o.todo) = <<>>
                    THEN Resolved(o)
                    ELSE [o EXCEPT !.pc = "deleteMetadata", !.todo = Tail(o.todo)]]
    [] o.pc = "getMetadata" ->
         [store |-> st,
          op    |-> IF MapHas(st.cache_meta, o.trackId)
                    THEN [o EXCEPT !.pc = "touch.getMetadata",
                                   !.result = {st.cache_meta[o.trackId]}]
                    ELSE IF o.kind = "storeAudioStreaming"
                    THEN [o EXCEPT !.pc = "saveMetadata",
                                   !.meta = {Metadata(o.trackId, StreamTotalChunks(o.fileSize),
                                                      Now, StreamTotalChunks(o.fileSize))}]
                    ELSE [o EXCEPT !.pc = "saveMetadata",
                                   !.meta = {Metadata(o.trackId, Len(o.chunks), Now,
                                                      Len(o.chunks))}]]
    [] o.pc = "touch.getMetadata" ->
         [store |-> st,
          op    |-> IF MapHas(st.cache_meta, o.trackId)
                    THEN [o EXCEPT !.pc = "touch.saveMetadata",
                                   !.meta = {[st.cache_meta[o.trackId] EXCEPT !.lastAccessed = Now]}]
                    ELSE Resolved(o)]
    [] o.pc = "touch.saveMetadata" ->
         [store |-> saveMetadata(st, CHOOSE m \in o.meta : TRUE), op |-> Resolved(o)]
    [] o.pc = "saveMetadata" ->
         [store |-> saveMetadata(st, CHOOSE m \in o.meta : TRUE),
          op    |-> IF o.chunks = <<>> THEN Resolved(o) ELSE [o EXCEPT !.pc = "saveChunk"]]
    [] o.pc = "saveChunk" ->
         [store |-> saveChunk(st, Head(o.chunks)),
          op    |-> IF Tail(o.chunks) # <<>> THEN [o EXCEPT !.chunks = Tail(o.chunks)]
                    ELSE IF o.kind = "storeAssemblyChunks"
                    THEN [o EXCEPT !.chunks = <<>>, !.pc = "saveMetadata.final"]
                    ELSE IF o.kind = "storeAudioStreaming"
                    THEN Resolved([o EXCEPT !.loading = BackgroundRanges(o.fileSize)])
                    ELSE Resolved(o)]
    [] o.pc = "saveMetadata.final" ->
         [store |-> saveMetadata(st, CHOOSE m \in o.meta : TRUE), op |-> Resolved(o)]
    [] o.pc = "getChunk" ->
         LET r == getChunk(st, o.trackId, 0)
         IN [store |-> st,
             op    |-> IF r.threw THEN [o EXCEPT !.pc = "getChunk.threw"]
                       ELSE Resolved([o EXCEPT !.result = {r}])]
    [] o.pc = "getAvailableChunks" ->
         [store |-> st,
          op    |-> Resolved([o EXCEPT !.result =
                       {{id[2] : id \in {x \in DOMAIN st.cache_data :
                                           st.cache_data[x].trackId = o.trackId}}}])]

\* Two calls running at the same time are not alone
MarkAlone(ops) ==
  IF Pending(ops.fg) /\ Pending(ops.bg)
  THEN [ops EXCEPT !.fg.alone = FALSE, !.bg.alone = FALSE]
  ELSE ops

\* ------------------------------------------------------------------------
\* Actions of the store
\* ------------------------------------------------------------------------

\* Longest list of blocks stored by one call
MaxChunks == 2

PlainPayload == <<0, 16256>>

\* The channel payloads of the blocks of one stored track
ChunkLists ==
  {<<p>> : p \in Payloads} \cup {[i \in 1..n |-> PlainPayload] : n \in 2..MaxChunks}

\* The calls that take a track, and those that also take its blocks
TrackKinds == {"removeTrack", "getFirstChunkBuffer", "getAvailableChunks"}

StoringKinds == {"storeAudio", "storeAssemblyChunks"}

ChunksOf(trackId, payloads) ==
  [i \in DOMAIN payloads |-> AudioChunk(trackId, i - 1, payloads[i])]

\* A caller calls the store once its previous call has ended; a call on a
\* store that is not initialized begins with initialize(). The calls that
\* have ended are forgotten.
StoreStartOp(kind, trackId, payloads) ==
  /\ ~Pending(storeOps.fg)
  /\ LET o == NewOp(kind, trackId, ChunksOf(trackId, payloads))
     IN storeOps' = MarkAlone(
          [fg |-> IF chunkStore.initialized THEN Begin(chunkStore, o) ELSE o,
           bg |-> IF Pending(storeOps.bg) THEN storeOps.bg ELSE NoOp])
  /\ UNCHANGED <<chunkStore, asmVars, engineVars, mgrVars, dlVars>>

\* request.onsuccess of openDatabase: the store is initialized, the startup
\* cleanup is launched without being awaited, and the call goes on
OpenSucceeds ==
  /\ Pending(storeOps.fg)
  /\ storeOps.fg.pc = "open"
  /\ chunkStore' = [chunkStore EXCEPT !.initialized = TRUE]
  /\ storeOps' = MarkAlone([fg |-> Begin(chunkStore', storeOps.fg),
                            bg |-> Begin(chunkStore', NewOp("cleanup", "", <<>>))])
  /\ UNCHANGED <<asmVars, engineVars, mgrVars, dlVars>>

\* Variant: every platform retries as Safari on iOS does.
openFailed_alwaysThree(st, o) ==
  IF o.retryCount + 1 >= 3
  THEN Ended([o EXCEPT !.retryCount = @ + 1], "rejected")
  ELSE [o EXCEPT !.retryCount = @ + 1]

\* The catch block of initialize()
openFailed(st, o) ==
  IF o.retryCount + 1 >= MaxOpenRetries(st.isSafariIOS)
  THEN Ended([o EXCEPT !.retryCount = @ + 1], "rejected")
  ELSE [o EXCEPT !.retryCount = @ + 1]

\* An attempt to open the database fails, by request.onerror or by the
\* 10 s timeout
OpenFails ==
  /\ Pending(storeOps.fg)
  /\ storeOps.fg.pc = "open"
  /\ storeOps' = [storeOps EXCEPT !.fg = openFailed(chunkStore, storeOps.fg)]
  /\ UNCHANGED <<chunkStore, asmVars, engineVars, mgrVars, dlVars>>

\* The database request a call is waiting for succeeds
RequestCompletes(slot) ==
  /\ Pending(storeOps[slot])
  /\ storeOps[slot].pc \notin {"open", "getChunk.threw"}
  /\ LET r == Complete(chunkStore, storeOps[slot])
     IN /\ chunkStore' = r.store
        /\ storeOps' = [storeOps EXCEPT ![slot] = r.op]
  /\ UNCHANGED <<asmVars, engineVars, mgrVars, dlVars>>

\* request.onerror or transaction.onerror: the call rejects with the
\* database's error
RequestFails(slot) ==
  /\ Pending(storeOps[slot])
  /\ storeOps[slot].pc \notin {"open", "getChunk.threw"}
  /\ storeOps' = [storeOps EXCEPT ![slot] = Ended(@, "rejected")]
  /\ UNCHANGED <<chunkStore, asmVars, engineVars, mgrVars, dlVars>>

\* The timeout period passes with the request still pending: withTimeout()
\* rejects the call if the request was passed to it
timeoutElapsed(o) ==
  IF o.pc \in WrappedRequests
  THEN Ended(o, "timeout")
  ELSE [o EXCEPT !.waited = TRUE]

TimeoutElapses(slot) ==
  /\ Pending(storeOps[slot])
  /\ storeOps[slot].pc # "open"
  /\ ~storeOps[slot].waited
  /\ storeOps' = [storeOps EXCEPT ![slot] = timeoutElapsed(storeOps[slot])]
  /\ UNCHANGED <<chunkStore, asmVars, engineVars, mgrVars, dlVars>>

StoreSlots == {"fg", "bg"}

\* storeAudioStreaming(url, trackId, name, options) on a server that
\* supports Range requests and serves a file of fileSize bytes whose first
\* range decodes to one block with the given channel payload
StoreStartStreaming(trackId, fileSize, payload) ==
  /\ ~Pending(storeOps.fg)
  /\ LET o == [NewOp("storeAudioStreaming", trackId, <<AudioChunk(trackId, 0, payload)>>)
                 EXCEPT !.fileSize = fileSize]
     IN storeOps' = MarkAlone(
          [fg |-> IF chunkStore.initialized THEN Begin(chunkStore, o) ELSE o,
           bg |-> IF Pending(storeOps.bg) THEN storeOps.bg ELSE NoOp])
  /\ UNCHANGED <<chunkStore, asmVars, engineVars, mgrVars, dlVars>>

\* One turn of the loop of loadRemainingChunksInBackground: the range is
\* fetched, its progress is reported, and the fetched bytes are dropped
BackgroundChunkFetched ==
  /\ storeOps.fg.loading # <<>>
  /\ storeOps' = [storeOps EXCEPT !.fg.loading = Tail(@)]
  /\ UNCHANGED <<chunkStore, asmVars, engineVars, mgrVars, dlVars>>

\* The store is opened on a database left by earlier sessions
StartupNext ==
  \/ StoreStartOp("initialize", "", <<>>)
  \/ OpenSucceeds
  \/ OpenFails
  \/ \E slot \in StoreSlots : RequestCompletes(slot)
  \/ \E slot \in StoreSlots : RequestFails(slot)
  \/ \E slot \in StoreSlots : TimeoutElapses(slot)

\* Tracks the callers store, read and remove
CallerTracks == {"A"}

StoreNext ==
  \/ \E kind \in TrackKinds, t \in CallerTracks : StoreStartOp(kind, t, <<>>)
  \/ \E kind \in StoringKinds, t \in CallerTracks, payloads \in ChunkLists :
       StoreStartOp(kind, t, payloads)
  \/ OpenSucceeds
  \/ OpenFails
  \/ \E slot \in StoreSlots : RequestCompletes(slot)
  \/ \E slot \in StoreSlots : RequestFails(slot)
  \/ \E slot \in StoreSlots : TimeoutElapses(slot)

\* A caller stores track A, whole or by Range requests, on a database in
\* which the startup cleanup may find it; every database request succeeds.
AccessNext ==
  \/ \E t \in CallerTracks, payloads \in ChunkLists : StoreStartOp("storeAudio", t, payloads)
  \/ \E t \in CallerTracks, fileSize \in 1..MaxStreamFileSize :
       StoreStartStreaming(t, fileSize, PlainPayload)
  \/ OpenSucceeds
  \/ OpenFails
  \/ \E slot \in StoreSlots : RequestCompletes(slot)
  \/ BackgroundChunkFetched

\* Databases left by earlier sessions
LastAccessedTimes == {0, 2, 3}

FileSizes == {1, 2}

PersistedTrack(t, lastAccessed, fileSize) ==
  [meta  |-> Metadata(t, 1, lastAccessed, fileSize),
   chunk |-> AudioChunk(t, 0, PlainPayload)]

PersistedDatabase(tracks, lastAccessed, fileSize) ==
  [cache_meta |-> [t \in tracks |-> Metadata(t, 1, lastAccessed[t], fileSize[t])],
   cache_data |-> [id \in {<<t, 0>> : t \in tracks} |->
                     AudioChunk(id[1], 0, PlainPayload)]]

StoreOpsIdle == [fg |-> NoOp, bg |-> NoOp]

StartupInit ==
  /\ \E ios \in BOOLEAN, hasTextDecoder \in BOOLEAN, tracks \in SUBSET StoreTracks :
       \E lastAccessed \in [tracks -> LastAccessedTimes], fileSize \in [tracks -> FileSizes] :
         LET db == PersistedDatabase(tracks, lastAccessed, fileSize)
         IN chunkStore = NewChunkStore(ios, hasTextDecoder, db.cache_meta, db.cache_data)
  /\ storeOps = StoreOpsIdle

\* Track B is fresh; track A may be old enough for the startup cleanup to
\* remove it while the caller works on it
StoreInit ==
  /\ \E hasTextDecoder \in BOOLEAN, tracks \in {{"B"}, {"A", "B"}}, accessedA \in {0, 3} :
       LET db == PersistedDatabase(tracks, [t \in tracks |-> IF t = "A" THEN accessedA ELSE 3],
                                   [t \in tracks |-> 1])
       IN chunkStore = NewChunkStore(FALSE, hasTextDecoder, db.cache_meta, db.cache_data)
  /\ storeOps = StoreOpsIdle

\* ------------------------------------------------------------------------
\* Properties of the store
\* ------------------------------------------------------------------------

\* C25 as stated: initialize() rejects only after the third consecutive
\* failed attempt to open the database.
C25_ThreeAttempts ==
  (storeOps.fg.kind = "initialize" /\ storeOps.fg.outcome = "rejected")
    => storeOps.fg.retryCount = 3

\* C25, amended: initialize() makes up to 3 attempts on Safari on iOS and a
\* single attempt elsewhere; it resolves at the first attempt that succeeds,
\* with the store initialized, and rejects only after the last allowed
\* attempt has failed.
C25_OpenWithRetry ==
  LET o        == storeOps.fg
      attempts == IF chunkStore.isSafariIOS THEN 3 ELSE 1
  IN o.kind = "initialize" =>
       /\ o.outcome = "rejected" => (o.retryCount = attempts /\ ~chunkStore.initialized)
       /\ o.outcome = "resolved" => (o.retryCount < attempts /\ chunkStore.initialized)
       /\ o.outcome = "pending" => (o.retryCount < attempts /\ ~chunkStore.initialized)

\* Attempts 1 and 2 failed, attempt 3 succeeded and initialize() resolved
C25_Witness ==
  /\ storeOps.fg.kind = "initialize"
  /\ storeOps.fg.outcome = "resolved"
  /\ storeOps.fg.retryCount = 2
  /\ chunkStore.initialized

\* The reference rule of eviction, between the database before a cleanup
\* and the store after it
TotalFileSize(meta, tracks) == SumFileSize(getAllMetadata([cache_meta |-> [t \in tracks |-> meta[t]]]))

OldTracks(b) ==
  {t \in DOMAIN b.cache_meta : Now - b.cache_meta[t].lastAccessed > MaxAgeUnits}

RemovedTracks(b, st) == DOMAIN b.cache_meta \ DOMAIN st.cache_meta

KeptTracks(b, st) == DOMAIN b.cache_meta \cap DOMAIN st.cache_meta

ReferenceEviction(b, st) ==
  LET meta    == b.cache_meta
      old     == OldTracks(b)
      removed == RemovedTracks(b, st)
      kept    == KeptTracks(b, st)
      extra   == removed \ old
  IN /\ old \subseteq removed
     /\ TotalFileSize(meta, DOMAIN meta \ old) <= MaxStorageUnits => extra = {}
     /\ TotalFileSize(meta, DOMAIN meta \ old) > MaxStorageUnits =>
          /\ \A r \in extra, k \in kept : meta[r].lastAccessed <= meta[k].lastAccessed
          /\ \E r \in extra :
               /\ \A r2 \in extra : meta[r2].lastAccessed <= meta[r].lastAccessed
               /\ TotalFileSize(meta, kept) + meta[r].fileSize > MaxStorageUnits
     /\ TotalFileSize(meta, kept) <= MaxStorageUnits
     /\ st.cache_meta = [t \in kept |-> meta[t]]
     /\ st.cache_data = [id \in {x \in DOMAIN b.cache_data : b.cache_data[x].trackId \notin removed}
                           |-> b.cache_data[id]]

\* C26: a cleanup() that ran with no other call on the store has removed
\* every track older than the max age and, if the rest exceeded the max
\* total, the shortest oldest-first prefix of the rest that brings the total
\* within the budget; it removed no other record or block.
C26_Eviction ==
  [][\A slot \in StoreSlots :
       (/\ storeOps[slot].kind = "cleanup"
        /\ Pending(storeOps[slot])
        /\ storeOps'[slot].outcome = "resolved"
        /\ storeOps'[slot].alone)
         => \A b \in storeOps'[slot].before : ReferenceEviction(b, chunkStore')]_vars

\* A cleanup that ran alone removed an old track and a track over the
\* budget and kept a third one
C26_Witness ==
  \E slot \in StoreSlots :
    /\ storeOps[slot].kind = "cleanup"
    /\ storeOps[slot].outcome = "resolved"
    /\ storeOps[slot].alone
    /\ \E b \in storeOps[slot].before :
         /\ OldTracks(b) # {}
         /\ RemovedTracks(b, chunkStore) \ OldTracks(b) # {}
         /\ KeptTracks(b, chunkStore) # {}

\* The step in which the call in a slot has its block stored
BlockSaved(slot) ==
  /\ Pending(storeOps[slot])
  /\ storeOps[slot].pc = "saveChunk"
  /\ storeOps'[slot].outcome \in {"pending", "resolved"}
  /\ storeOps'[slot].chunks # storeOps[slot].chunks

\* C27: reading a block after storing it returns channel payloads
\* bit-identical to those stored, with as many samples per channel.
C27_RoundTrip ==
  [][\A slot \in StoreSlots :
       BlockSaved(slot) =>
         LET chunk == Head(storeOps[slot].chunks)
             read  == getChunk(chunkStore', chunk.trackId, chunk.chunkIndex)
         IN /\ read.found
            /\ ~read.threw
            /\ \A c \in read.chunk : c.channels = chunk.channels]_vars

\* C28: every read or write of the store is wrapped in a timeout: no call
\* is still waiting for its database request once the timeout period has
\* passed; it has rejected with the timeout error.
C28_TimeoutWrapped ==
  \A slot \in StoreSlots : ~(Pending(storeOps[slot]) /\ storeOps[slot].waited)

\* The step in which a removeTrack(t), called directly or by cleanup(),
\* completes
TrackRemoved(slot) ==
  /\ Pending(storeOps[slot])
  /\ storeOps[slot].pc = "deleteChunks"
  /\ storeOps'[slot].outcome = "resolved" \/ storeOps'[slot].pc = "deleteMetadata"

BlocksOf(st, tracks) == {id \in DOMAIN st.cache_data : st.cache_data[id].trackId \in tracks}

\* C29: when removeTrack(t) completes the store holds neither a record nor
\* a block of t, and the records and blocks of every other track are as
\* they were when it was called.
C29_TrackRemoved ==
  [][\A slot \in StoreSlots :
       TrackRemoved(slot) =>
         LET t == Head(storeOps[slot].todo)
         IN /\ ~MapHas(chunkStore'.cache_meta, t)
            /\ BlocksOf(chunkStore', {t}) = {}
            /\ storeOps[slot].kind = "removeTrack" =>
                 \A b \in storeOps[slot].before :
                   /\ chunkStore'.cache_meta = MapDelete(b.cache_meta, t)
                   /\ chunkStore'.cache_data =
                        [id \in DOMAIN b.cache_data \ BlocksOf(b, {t}) |-> b.cache_data[id]]]_vars

\* C30: a stored block never changes, and it disappears only when
\* removeTrack or cleanup removes its track.
C30_BlocksImmutable ==
  [][/\ \A id \in DOMAIN chunkStore.cache_data \cap DOMAIN chunkStore'.cache_data :
          chunkStore'.cache_data[id] = chunkStore.cache_data[id]
     /\ \A id \in DOMAIN chunkStore.cache_data \ DOMAIN chunkStore'.cache_data :
          \E slot \in StoreSlots :
            /\ storeOps[slot].kind \in {"removeTrack", "cleanup"}
            /\ storeOps[slot].pc = "deleteChunks"
            /\ Head(storeOps[slot].todo) = id[1]]_vars

\* The blocks of a track that are in the store
StoredBlocks(trackId) ==
  {id[2] : id \in {x \in DOMAIN chunkStore.cache_data :
                     chunkStore.cache_data[x].trackId = trackId}}

\* C38: once a storing call has resolved and its background loading has
\* finished, the store holds blocks 0..N-1 of the track, N being the
\* totalChunks of the track's record.
C38_TrackComplete ==
  LET o == storeOps.fg
  IN (/\ o.kind \in {"storeAudio", "storeAudioStreaming"}
      /\ o.outcome = "resolved"
      /\ o.loading = <<>>
      /\ MapHas(chunkStore.cache_meta, o.trackId))
       => \A i \in 0..(chunkStore.cache_meta[o.trackId].totalChunks - 1) :
            i \in StoredBlocks(o.trackId)

\* C39: once the startup cleanup and the caller's access to a track have
\* both ended, the track has a record exactly when it has blocks.
C39_RecordWithBlocks ==
  (~Pending(storeOps.fg) /\ ~Pending(storeOps.bg)) =>
    \A t \in StoreTracks :
      MapHas(chunkStore.cache_meta, t) <=> StoredBlocks(t) # {}

\* ========================================================================
\* Specifications
\* ========================================================================

AsmIdle ==
  /\ asm = NewAssembler([playbackChunkSize |-> 1, storageChunkSize |-> 1])
  /\ plan = <<>>
  /\ added = <<>>
  /\ phase = "new"

EngineIdle ==
  /\ worklet = NewProcessor
  /\ port = <<>>
  /\ lastKnownPosition = 0
  /\ endedCount = 0
  /\ activated = {}

MgrIdle ==
  /\ manager = NewManager
  /\ calls = <<>>
  /\ decodes = {}
  /\ sent = <<>>

\* The assembler alone
DlIdle ==
  /\ downloader = NewDownloadManager([adaptiveChunkSizing |-> TRUE], FALSE)
  /\ download = NoDownload

StoreIdle ==
  /\ chunkStore = NewChunkStore(FALSE, TRUE, EmptyMap, EmptyMap)
  /\ storeOps = StoreOpsIdle

InitAsm == AsmInit /\ EngineIdle /\ MgrIdle /\ DlIdle /\ StoreIdle

SpecAsm == InitAsm /\ [][AsmNext]_vars

\* The processor alone, commanded through its port
InitEngine == EngineInit /\ AsmIdle /\ MgrIdle /\ DlIdle /\ StoreIdle

SpecEngine == InitEngine /\ [][EngineNext]_vars

\* The manager, its decodes and the processor behind the port
InitMgr == MgrInit /\ EngineInit /\ AsmIdle /\ DlIdle /\ StoreIdle

SpecMgr == InitMgr /\ [][MgrNextFlat]_vars

\* The same with the messages in the layout the processor reads
SpecMgrData == InitMgr /\ [][MgrNextData]_vars

\* One DownloadManager planning one download after another
InitPlan == DlInit /\ AsmIdle /\ EngineIdle /\ MgrIdle /\ StoreIdle

SpecPlan == InitPlan /\ [][PlanNext]_vars

\* One DownloadManager running one downloadAudio()
SpecFetch == InitPlan /\ [][FetchNext]_vars

\* The store opened on a database left by earlier sessions
InitStartup == StartupInit /\ AsmIdle /\ EngineIdle /\ MgrIdle /\ DlIdle

SpecStartup == InitStartup /\ [][StartupNext]_vars

\* The store, its callers and the startup cleanup
InitStore == StoreInit /\ AsmIdle /\ EngineIdle /\ MgrIdle /\ DlIdle

SpecStore == InitStore /\ [][StoreNext]_vars

SpecAccess == InitStore /\ [][AccessNext]_vars

\* The processor alone, under commands of any content
SpecEngineRaw == InitEngine /\ [][EngineRawNext]_vars

====
